---- MODULE Spec2Model ----
(***************************************************************************)
(* generate_pages.py: the BibTeX parser (parse_bib, _parse_fields), the    *)
(* keyword filter and year sort, the five content generators, and main     *)
(* writing the generated artifacts into the project tree.                  *)
(*                                                                         *)
(* A text (Python str) is a sequence of one-character strings.  Positions  *)
(* are 0-based as in the source: At(s, i) is s[i], Slice(s, a, b) is       *)
(* s[a:b].                                                                 *)
(***************************************************************************)
EXTENDS Integers, Sequences, FiniteSets, TLC

\* ------------------------------------------------------------------------
\* Characters and str primitives
\* ------------------------------------------------------------------------

At(s, i) == s[i + 1]

Min(a, b) == IF a <= b THEN a ELSE b

Max(a, b) == IF a >= b THEN a ELSE b

\* s[a:b] for 0 <= a: empty when b <= a, clipped to len(s).
Slice(s, a, b) == SubSeq(s, a + 1, Min(b, Len(s)))

LowerLetters == <<"a", "b", "c", "d", "e", "f", "g", "h", "i", "j", "k", "l", "m", "n", "o", "p", "q", "r", "s", "t", "u", "v", "w", "x", "y", "z">>

UpperLetters == <<"A", "B", "C", "D", "E", "F", "G", "H", "I", "J", "K", "L", "M", "N", "O", "P", "Q", "R", "S", "T", "U", "V", "W", "X", "Y", "Z">>

Digits == <<"0", "1", "2", "3", "4", "5", "6", "7", "8", "9">>

Range(s) == {s[n] : n \in 1..Len(s)}

\* regex \w on the ASCII plane
IsWord(c) == c \in Range(LowerLetters) \cup Range(UpperLetters) \cup Range(Digits) \cup {"_"}

\* regex \s and the characters str.strip() removes (ASCII plane; open() in
\* text mode has already turned \r and \r\n into \n)
IsSpace(c) == c \in {" ", "\t", "\n", "\r", "\f"}

\* str.lower() on one character
LowerChar(c) ==
  IF c \in Range(UpperLetters)
    THEN LowerLetters[CHOOSE n \in 1..26 : UpperLetters[n] = c]
    ELSE c

\* str.lower()
Lower(s) == [n \in 1..Len(s) |-> LowerChar(s[n])]

\* number of leading characters of s[i:] that satisfy the class
RECURSIVE WordRun(_, _)
WordRun(s, i) == IF i < Len(s) /\ IsWord(At(s, i)) THEN 1 + WordRun(s, i + 1) ELSE 0

RECURSIVE SpaceRun(_, _)
SpaceRun(s, i) == IF i < Len(s) /\ IsSpace(At(s, i)) THEN 1 + SpaceRun(s, i + 1) ELSE 0

\* [^,\s]
IsKeyChar(c) == c # "," /\ ~IsSpace(c)

RECURSIVE KeyRun(_, _)
KeyRun(s, i) == IF i < Len(s) /\ IsKeyChar(At(s, i)) THEN 1 + KeyRun(s, i + 1) ELSE 0

RECURSIVE TrailingSpaces(_)
TrailingSpaces(s) ==
  IF Len(s) > 0 /\ IsSpace(s[Len(s)]) THEN 1 + TrailingSpaces(SubSeq(s, 1, Len(s) - 1)) ELSE 0

\* str.strip()
Strip(s) ==
  LET a == SpaceRun(s, 0)
      t == Slice(s, a, Len(s))
  IN  Slice(t, 0, Len(t) - TrailingSpaces(t))

\* ------------------------------------------------------------------------
\* parse_bib: entry discovery
\* ------------------------------------------------------------------------

NoMatch == [found |-> FALSE]

\* re.match(r"@(\w+)\{\s*([^,\s]+)\s*,", content, p): every quantifier is
\* greedy and is followed by a character outside its class, so the match,
\* when there is one, takes the maximal runs.
HeaderMatchAt(s, p) ==
  LET w  == WordRun(s, p + 1)
      b  == p + 1 + w
      k0 == b + 1 + SpaceRun(s, b + 1)
      kr == KeyRun(s, k0)
      c  == k0 + kr + SpaceRun(s, k0 + kr)
  IN  IF /\ p < Len(s) /\ At(s, p) = "@"
         /\ w >= 1
         /\ b < Len(s) /\ At(s, b) = "{"
         /\ kr >= 1
         /\ c < Len(s) /\ At(s, c) = ","
        THEN [found |-> TRUE, start |-> p, group1 |-> Slice(s, p + 1, b),
              group2 |-> Slice(s, k0, k0 + kr), end |-> c + 1]
        ELSE NoMatch

\* the next match re.finditer yields when its scan stands at position p: the
\* match at the first position from p on where the pattern matches
NextHeader(s, p) ==
  LET Hit(q) == At(s, q) = "@" /\ HeaderMatchAt(s, q).found
  IN  IF \E q \in p..(Len(s) - 1) : Hit(q)
        THEN HeaderMatchAt(s, CHOOSE q \in p..(Len(s) - 1) :
                                Hit(q) /\ \A r \in p..(q - 1) : ~Hit(r))
        ELSE NoMatch

\* lines 62-68: walk forward counting braces; the position where the loop stops.
\* The count after the characters s[pos], ..., s[q-1] is depth plus the "{" and
\* minus the "}" among them, and the loop stops at the first q where the count
\* is not positive, or at the end of s.
BraceWalk(s, pos, depth) ==
  LET Count(q) == depth + Cardinality({r \in pos..(q - 1) : At(s, r) = "{"})
                        - Cardinality({r \in pos..(q - 1) : At(s, r) = "}"})
      Stop(q) == q >= Len(s) \/ Count(q) <= 0
  IN  CHOOSE q \in pos..Len(s) : Stop(q) /\ \A r \in pos..(q - 1) : ~Stop(r)

\* lines 59-70
EntryBody(s, start) == Slice(s, start, BraceWalk(s, start, 1) - 1)

\* ------------------------------------------------------------------------
\* _parse_fields: one iteration of the scanning loop
\* ------------------------------------------------------------------------

\* what a subscript out of range produces
IndexError == "IndexError"

\* body[i], raising IndexError out of range
Subscript(s, i) == IF 0 <= i /\ i < Len(s) THEN At(s, i) ELSE IndexError

\* a dict: a function from field names to values
EmptyDict == [k \in {} |-> <<>>]

\* d[k] = v
DictSet(d, k, v) == (k :> v) @@ d

\* the two reserved keys of a record
TypeKey == <<"_", "t", "y", "p", "e">>

KeyKey == <<"_", "k", "e", "y">>

\* MakeEntry with the fields of the body laid over the type and the key
MakeEntryFieldsWin(d, m) == d @@ (TypeKey :> Lower(m.group1)) @@ (KeyKey :> Strip(m.group2))

\* lines 55-56, 72-73
MakeEntry(d, m) == DictSet(DictSet(d, TypeKey, Lower(m.group1)), KeyKey, Strip(m.group2))

\* the characters line 87 skips
SkipChars == {" ", "\t", "\n", "\r", ","}

RECURSIVE SkipRun(_, _)
SkipRun(s, i) == IF i < Len(s) /\ At(s, i) \in SkipChars THEN 1 + SkipRun(s, i + 1) ELSE 0

\* lines 87-88
AfterSkip(s, i) == i + SkipRun(s, i)

\* SkipBreak without the test of line 89
SkipBreakNever(i, length) == FALSE

\* lines 89-90: if i >= length: break
SkipBreak(i, length) == i >= length

\* lines 94-95: forward to the newline (not consumed) or the end
RECURSIVE CommentEnd(_, _)
CommentEnd(s, i) == IF i < Len(s) /\ At(s, i) # "\n" THEN CommentEnd(s, i + 1) ELSE i

\* FieldNameMatch with a pattern that ends at the "="
FieldNameMatchToEquals(s, i) ==
  LET w == WordRun(s, i)
      e == i + w + SpaceRun(s, i + w)
  IN  IF w >= 1 /\ e < Len(s) /\ At(s, e) = "="
        THEN [found |-> TRUE, group1 |-> Slice(s, i, i + w), end |-> e + 1]
        ELSE NoMatch

\* line 99: re.match(r"(\w+)\s*=\s*", body[i:]); end is i + m.end()
FieldNameMatch(s, i) ==
  LET w == WordRun(s, i)
      e == i + w + SpaceRun(s, i + w)
  IN  IF w >= 1 /\ e < Len(s) /\ At(s, e) = "="
        THEN [found |-> TRUE, group1 |-> Slice(s, i, i + w),
              end |-> e + 1 + SpaceRun(s, e + 1)]
        ELSE NoMatch

\* lines 106-107: if i >= length: break
NameBreak(i, length) == i >= length

\* the position of the next closing brace from i on, or length
RECURSIVE FindCloseBrace(_, _)
FindCloseBrace(s, i) == IF i < Len(s) /\ At(s, i) # "}" THEN FindCloseBrace(s, i + 1) ELSE i

\* BracedEnd without the depth count: the value ends at the first closing brace
BracedEndFirst(s, i, depth) ==
  IF depth > 0 /\ FindCloseBrace(s, i) < Len(s) THEN FindCloseBrace(s, i) + 1
  ELSE IF depth > 0 THEN Len(s)
  ELSE i

\* lines 114-119: the position after the closing brace, or length
RECURSIVE BracedEnd(_, _, _)
BracedEnd(s, i, depth) ==
  IF i < Len(s) /\ depth > 0
    THEN BracedEnd(s, i + 1,
                   IF At(s, i) = "{" THEN depth + 1
                   ELSE IF At(s, i) = "}" THEN depth - 1 ELSE depth)
    ELSE i

\* QuotedEnd passing over a double quote that follows a backslash
RECURSIVE QuotedEndEscaped(_, _)
QuotedEndEscaped(s, i) ==
  IF i < Len(s) /\ (At(s, i) # "\"" \/ (i > 0 /\ At(s, i - 1) = "\\"))
    THEN QuotedEndEscaped(s, i + 1)
    ELSE i

\* lines 124-125: the position of the next double quote, or length
RECURSIVE QuotedEnd(_, _)
QuotedEnd(s, i) == IF i < Len(s) /\ At(s, i) # "\"" THEN QuotedEnd(s, i + 1) ELSE i

\* lines 130-131: the position of the next comma, closing brace or newline
RECURSIVE BareEnd(_, _)
BareEnd(s, i) == IF i < Len(s) /\ At(s, i) \notin {",", "}", "\n"} THEN BareEnd(s, i + 1) ELSE i

\* lines 110-120
BracedValue(s, i) ==
  LET e == BracedEnd(s, i + 1, 1)
  IN  [value |-> Slice(s, i + 1, e - 1), i |-> e]

\* lines 121-127
QuotedValue(s, i) ==
  LET e == QuotedEnd(s, i + 1)
  IN  [value |-> Slice(s, i + 1, e), i |-> e + 1]

\* lines 128-132
BareValue(s, i) ==
  LET e == BareEnd(s, i)
  IN  [value |-> Strip(Slice(s, i, e)), i |-> e]

\* StoreField keeping the value a name already has
StoreFieldFirstWins(d, name, value) ==
  IF name \in DOMAIN d THEN d ELSE DictSet(d, name, Strip(value))

\* line 134
StoreField(d, name, value) == DictSet(d, name, Strip(value))

\* ------------------------------------------------------------------------
\* str and dict helpers of the formatter
\* ------------------------------------------------------------------------

\* what int() and a failed unpacking raise, in place of the text a
\* formatter would have returned
ValueError == <<"ValueError">>

\* d[k] in the place of d.get(k, default): a key that is missing raises
DictGetSubscript(d, k, default) == IF k \in DOMAIN d THEN d[k] ELSE ValueError

\* d.get(k, default)
DictGet(d, k, default) == IF k \in DOMAIN d THEN d[k] ELSE default

\* s[p:].startswith(pat)
StartsWithAt(s, p, pat) == p + Len(pat) <= Len(s) /\ Slice(s, p, p + Len(pat)) = pat

\* s.find(c, p) for a one-character c: its position, or len(s) when absent
RECURSIVE FindChar(_, _, _)
FindChar(s, c, p) == IF p < Len(s) /\ At(s, p) # c THEN FindChar(s, c, p + 1) ELSE p

\* s.split(c): never empty, "" gives [""]
RECURSIVE Split(_, _)
Split(s, c) ==
  LET p == FindChar(s, c, 0)
  IN  IF p >= Len(s) THEN <<s>>
      ELSE <<Slice(s, 0, p)>> \o Split(Slice(s, p + 1, Len(s)), c)

\* s.replace(old, new): non-overlapping occurrences, left to right
RECURSIVE Replace(_, _, _)
Replace(s, old, new) ==
  IF s = <<>> THEN <<>>
  ELSE IF StartsWithAt(s, 0, old) THEN new \o Replace(Slice(s, Len(old), Len(s)), old, new)
  ELSE <<Head(s)>> \o Replace(Tail(s), old, new)

\* sep.join(lines)
RECURSIVE Join(_, _)
Join(sep, lines) ==
  IF lines = <<>> THEN <<>>
  ELSE IF Len(lines) = 1 THEN lines[1]
  ELSE lines[1] \o sep \o Join(sep, Tail(lines))

\* the code point of an ASCII character
\* (code point 96, the grave accent, cannot be written in a string here)
Printable ==
  <<" ", "!", "\"", "#", "$", "%", "&", "'", "(", ")", "*", "+", ",", "-", ".", "/", "0", "1", "2", "3", "4", "5", "6", "7", "8", "9", ":", ";", "<", "=", ">", "?", "@", "A", "B", "C", "D", "E", "F", "G", "H", "I", "J", "K", "L", "M", "N", "O", "P", "Q", "R", "S", "T", "U", "V", "W", "X", "Y", "Z", "[", "\\", "]", "^", "_">> \o <<"U+0060">>
  \o <<"a", "b", "c", "d", "e", "f", "g", "h", "i", "j", "k", "l", "m", "n", "o", "p", "q", "r", "s", "t", "u", "v", "w", "x", "y", "z", "{", "|", "}", "~">>

Ord(c) ==
  IF c = "\n" THEN 10 ELSE IF c = "\t" THEN 9 ELSE IF c = "\r" THEN 13 ELSE IF c = "\f" THEN 12
  ELSE 31 + (CHOOSE n \in 1..Len(Printable) : Printable[n] = c)

\* a < b for str: by code point, a proper prefix is smaller
RECURSIVE StrLess(_, _)
StrLess(a, b) ==
  IF b = <<>> THEN FALSE
  ELSE IF a = <<>> THEN TRUE
  ELSE IF Head(a) = Head(b) THEN StrLess(Tail(a), Tail(b))
  ELSE Ord(Head(a)) < Ord(Head(b))

\* str(n) for n >= 0
RECURSIVE IntStr(_)
IntStr(n) == IF n < 10 THEN <<Digits[n + 1]>> ELSE IntStr(n \div 10) \o <<Digits[(n % 10) + 1]>>

IsDigit(c) == c \in Range(Digits)

RECURSIVE DigitsValue(_, _)
DigitsValue(s, acc) ==
  IF s = <<>> THEN acc
  ELSE DigitsValue(Tail(s), 10 * acc + ((CHOOSE n \in 1..10 : Digits[n] = Head(s)) - 1))

\* whether int(s) returns, for the literals a date field holds: decimal
\* digits within optional whitespace; on anything else int() raises
IsInt(s) == Strip(s) # <<>> /\ \A n \in 1..Len(Strip(s)) : IsDigit(Strip(s)[n])

\* int(s)
IntOf(s) == DigitsValue(Strip(s), 0)

\* ------------------------------------------------------------------------
\* Date formatting, filtering and sorting
\* ------------------------------------------------------------------------

\* lines 169-173
MONTHS ==
  (<<"0", "1">> :> <<"J", "a", "n", "u", "a", "r", "y">>) @@ (<<"0", "2">> :> <<"F", "e", "b", "r", "u", "a", "r", "y">>) @@ (<<"0", "3">> :> <<"M", "a", "r", "c", "h">>) @@
  (<<"0", "4">> :> <<"A", "p", "r", "i", "l">>) @@ (<<"0", "5">> :> <<"M", "a", "y">>) @@ (<<"0", "6">> :> <<"J", "u", "n", "e">>) @@
  (<<"0", "7">> :> <<"J", "u", "l", "y">>) @@ (<<"0", "8">> :> <<"A", "u", "g", "u", "s", "t">>) @@ (<<"0", "9">> :> <<"S", "e", "p", "t", "e", "m", "b", "e", "r">>) @@
  (<<"1", "0">> :> <<"O", "c", "t", "o", "b", "e", "r">>) @@ (<<"1", "1">> :> <<"N", "o", "v", "e", "m", "b", "e", "r">>) @@ (<<"1", "2">> :> <<"D", "e", "c", "e", "m", "b", "e", "r">>)

\* MONTHS.get(m, m)
MonthName(m) == DictGet(MONTHS, m, m)

\* U+2013, the en dash
EnDash == <<"U+2013">>

\* lines 196-201
FormatSingleDate(date_str) ==
  LET parts == Split(date_str, "-")
  IN  IF Len(parts) = 3
        THEN IF ~IsInt(parts[3]) THEN ValueError
             ELSE IntStr(IntOf(parts[3])) \o <<" ">> \o MonthName(parts[2]) \o <<" ">> \o parts[1]
      ELSE IF Len(parts) = 2 THEN MonthName(parts[2]) \o <<" ">> \o parts[1]
      ELSE date_str

\* lines 176-201; ValueError when the unpacking at line 186 or an int() fails
format_date(date_str) ==
  IF date_str = <<>> THEN <<>>
  ELSE IF "/" \in Range(date_str)
    THEN LET halves == Split(date_str, "/")
         IN  IF Len(halves) # 2 THEN ValueError
             ELSE LET sp == Split(halves[1], "-")
                      ep == Split(halves[2], "-")
                  IN  IF Len(sp) = 3 /\ Len(ep) = 3
                        THEN IF ~IsInt(sp[3]) \/ ~IsInt(ep[3])
                               THEN ValueError
                             ELSE IF sp[2] = ep[2]
                               THEN IntStr(IntOf(sp[3])) \o EnDash \o IntStr(IntOf(ep[3]))
                                    \o <<" ">> \o MonthName(sp[2]) \o <<" ">> \o sp[1]
                             ELSE IntStr(IntOf(sp[3])) \o <<" ">> \o MonthName(sp[2]) \o <<" ">>
                                  \o EnDash \o <<" ">> \o IntStr(IntOf(ep[3])) \o <<" ">>
                                  \o MonthName(ep[2]) \o <<" ">> \o sp[1]
                      ELSE FormatSingleDate(date_str)
  ELSE FormatSingleDate(date_str)

\* lines 204-210
get_year(entry) ==
  IF <<"y", "e", "a", "r">> \in DOMAIN entry THEN entry[<<"y", "e", "a", "r">>]
  ELSE IF <<"d", "a", "t", "e">> \in DOMAIN entry THEN Split(Split(entry[<<"d", "a", "t", "e">>], "-")[1], "/")[1]
  ELSE <<>>

\* line 221
KwList(e) ==
  LET items == Split(DictGet(e, <<"k", "e", "y", "w", "o", "r", "d", "s">>, <<>>), ",")
  IN  [n \in 1..Len(items) |-> Strip(items[n])]

\* whether sub occurs in s
Contains(s, sub) == \E k \in 0..Len(s) : StartsWithAt(s, k, sub)

\* HasKeyword testing the keywords text for a substring
HasKeywordSubstring(e, keyword) == Contains(DictGet(e, <<"k", "e", "y", "w", "o", "r", "d", "s">>, <<>>), keyword)

\* line 222
HasKeyword(e, keyword) == keyword \in Range(KwList(e))

\* lines 217-224
RECURSIVE filter_by_keyword(_, _)
filter_by_keyword(es, keyword) ==
  IF es = <<>> THEN <<>>
  ELSE (IF HasKeyword(Head(es), keyword) THEN <<Head(es)>> ELSE <<>>)
       \o filter_by_keyword(Tail(es), keyword)

\* InsertDesc putting e before the elements of the same key
RECURSIVE InsertDescBeforeEqual(_, _)
InsertDescBeforeEqual(sorted, e) ==
  IF sorted = <<>> THEN <<e>>
  ELSE IF ~StrLess(get_year(e), get_year(Head(sorted))) THEN <<e>> \o sorted
  ELSE <<Head(sorted)>> \o InsertDescBeforeEqual(Tail(sorted), e)

\* where sorted(..., reverse=True) puts e: after every element whose key is
\* not smaller, so equal keys keep their input order
RECURSIVE InsertDesc(_, _)
InsertDesc(sorted, e) ==
  IF sorted = <<>> THEN <<e>>
  ELSE IF StrLess(get_year(Head(sorted)), get_year(e)) THEN <<e>> \o sorted
  ELSE <<Head(sorted)>> \o InsertDesc(Tail(sorted), e)

\* sort_by_year_desc leaving the order of the bibliography
sort_by_year_desc_unsorted(es) == es

\* lines 227-229
RECURSIVE sort_by_year_desc(_)
sort_by_year_desc(es) ==
  IF es = <<>> THEN <<>>
  ELSE InsertDesc(sort_by_year_desc(SubSeq(es, 1, Len(es) - 1)), es[Len(es)])

\* line 36
BOLD_NAME == <<"S", "h", "r", "i", "k", "r", "i", "s", "h", "n", "a", " ", "B", "h", "a", "t", " ", "K", "a", "p", "u">>

\* lines 232-234
bold_author(author_str) == Replace(author_str, BOLD_NAME, <<"*", "*">> \o BOLD_NAME \o <<"*", "*">>)

\* ------------------------------------------------------------------------
\* clean_latex
\* ------------------------------------------------------------------------

\* re.sub(r"\\cmd\{([^}]*)\}", open \1 close, s), cmd given with its
\* backslash and opening brace
RECURSIVE SubCommand(_, _, _, _)
SubCommand(s, cmd, open, close) ==
  IF s = <<>> THEN <<>>
  ELSE LET q == FindChar(s, "}", Len(cmd))
       IN  IF StartsWithAt(s, 0, cmd) /\ q < Len(s)
             THEN open \o Slice(s, Len(cmd), q) \o close
                  \o SubCommand(Slice(s, q + 1, Len(s)), cmd, open, close)
             ELSE <<Head(s)>> \o SubCommand(Tail(s), cmd, open, close)

\* the position of the first brace of either kind at or after p, or len(s)
RECURSIVE FindBrace(_, _)
FindBrace(s, p) == IF p < Len(s) /\ At(s, p) \notin {"{", "}"} THEN FindBrace(s, p + 1) ELSE p

\* line 155: re.sub(r"\{([^{}]*)\}", r"\1", s)
RECURSIVE StripGroups(_)
StripGroups(s) ==
  IF s = <<>> THEN <<>>
  ELSE LET q == FindBrace(s, 1)
       IN  IF Head(s) = "{" /\ q < Len(s) /\ At(s, q) = "}"
             THEN Slice(s, 1, q) \o StripGroups(Slice(s, q + 1, Len(s)))
             ELSE <<Head(s)>> \o StripGroups(Tail(s))

IsAsciiLetter(c) == c \in Range(LowerLetters) \cup Range(UpperLetters)

RECURSIVE LetterRun(_, _)
LetterRun(s, p) == IF p < Len(s) /\ IsAsciiLetter(At(s, p)) THEN 1 + LetterRun(s, p + 1) ELSE 0

\* line 161: re.sub(r"\\[a-zA-Z]+\s*", "", s)
RECURSIVE DropCommands(_)
DropCommands(s) ==
  IF s = <<>> THEN <<>>
  ELSE LET n == LetterRun(s, 1)
       IN  IF Head(s) = "\\" /\ n >= 1
             THEN DropCommands(Slice(s, 1 + n + SpaceRun(s, 1 + n), Len(s)))
             ELSE <<Head(s)>> \o DropCommands(Tail(s))

\* lines 143-162
clean_latex(text) ==
  IF text = <<>> THEN text
  ELSE LET t1 == SubCommand(text, <<"\t", "e", "x", "t", "b", "f", "{">>, <<"*", "*">>, <<"*", "*">>)
           t2 == SubCommand(t1, <<"\t", "e", "x", "t", "i", "t", "{">>, <<"*">>, <<"*">>)
           t3 == SubCommand(t2, <<"\\", "e", "m", "p", "h", "{">>, <<"*">>, <<"*">>)
           t4 == SubCommand(t3, <<"\t", "e", "x", "t", "s", "u", "p", "e", "r", "s", "c", "r", "i", "p", "t", "{">>, <<"<", "s", "u", "p", ">">>, <<"<", "/", "s", "u", "p", ">">>)
           t5 == StripGroups(t4)
           t6 == Replace(t5, <<"~">>, <<" ">>)
           t7 == Replace(t6, <<"-", "-">>, EnDash)
       IN  Strip(DropCommands(t7))

\* ------------------------------------------------------------------------
\* The project tree.  A path is the sequence of its components below
\* PROJECT_DIR; files maps the paths of the files to their contents, dirs
\* is the set of the directories.  Nothing outside PROJECT_DIR is modelled:
\* a path that leaves it resolves to nothing.
\* ------------------------------------------------------------------------

\* line 33
INCLUDES_DIR == <<<<"_", "i", "n", "c", "l", "u", "d", "e", "s">>>>

\* line 257
PUB_PAGES_DIR == <<<<"p", "u", "b", "l", "i", "c", "a", "t", "i", "o", "n", "s">>>>

\* line 238
CV_DIR == <<<<"C", "V", "S", "h", "r", "i", "k", "r", "i", "s", "h", "n", "a", "B", "h", "a", "t">>>>

ProjectDir == <<>>

Unresolved == [ok |-> FALSE]

\* pathlib's reading of the right operand of "/": the components between
\* slashes, empty ones and "." dropped, ".." kept
PathParts(rel) ==
  LET RECURSIVE Keep(_)
      Keep(ps) ==
        IF ps = <<>> THEN <<>>
        ELSE (IF Head(ps) \in {<<>>, <<".">>} THEN <<>> ELSE <<Head(ps)>>) \o Keep(Tail(ps))
  IN  Keep(Split(rel, "/"))

\* an absolute right operand replaces the left one
IsAbsolute(rel) == rel # <<>> /\ Head(rel) = "/"

\* the operating system's walk from directory cur along parts: every
\* component but the last must be a directory, ".." steps to the parent
RECURSIVE Walk(_, _, _)
Walk(ds, cur, parts) ==
  IF cur \notin ds THEN Unresolved
  ELSE IF parts = <<>> THEN [ok |-> TRUE, path |-> cur]
  ELSE IF Head(parts) = <<".", ".">>
    THEN IF cur = ProjectDir THEN Unresolved
         ELSE Walk(ds, SubSeq(cur, 1, Len(cur) - 1), Tail(parts))
  ELSE IF Len(parts) = 1 THEN [ok |-> TRUE, path |-> cur \o parts]
  ELSE Walk(ds, cur \o <<Head(parts)>>, Tail(parts))

\* base / rel, resolved
Resolve(ds, base, rel) ==
  IF IsAbsolute(rel) THEN Unresolved ELSE Walk(ds, ProjectDir, base \o PathParts(rel))

\* lines 241-245
file_exists(fs, ds, rel_path) ==
  IF rel_path = <<>> THEN FALSE
  ELSE LET r == Resolve(ds, CV_DIR, rel_path)
       IN  r.ok /\ r.path \in DOMAIN fs

\* lines 248-250
resolve_file_path(rel_path) == <<"C", "V", "S", "h", "r", "i", "k", "r", "i", "s", "h", "n", "a", "B", "h", "a", "t", "/">> \o rel_path

\* (base / rel).mkdir(exist_ok=True): the directories afterwards; not ok
\* (OSError) when the parent is missing or the path is a file
Mkdir(fs, ds, base, rel) ==
  LET r == Resolve(ds, base, rel)
  IN  IF ~r.ok THEN [ok |-> FALSE, dirs |-> ds]
      ELSE IF r.path \in ds THEN [ok |-> TRUE, dirs |-> ds]
      ELSE IF r.path \in DOMAIN fs THEN [ok |-> FALSE, dirs |-> ds]
      ELSE [ok |-> TRUE, dirs |-> ds \cup {r.path}]

\* (base / rel).write_text(text): the files afterwards, the file replaced
\* when it exists; not ok (OSError) when the parent is missing or the path
\* is a directory
WriteText(fs, ds, base, rel, text) ==
  LET r == Resolve(ds, base, rel)
  IN  IF ~r.ok \/ r.path \in ds THEN [ok |-> FALSE, files |-> fs]
      ELSE [ok |-> TRUE, files |-> (r.path :> text) @@ fs]

\* ------------------------------------------------------------------------
\* Content generators.  A generated text is the sequence of its pieces: the
\* characters of the field values and, as one piece each, the literal
\* fragments of the f-strings.  U+.... stands for the one character of that
\* code point.
\* ------------------------------------------------------------------------

\* [e for e in es if e["_type"] == "article"] and its complement
RECURSIVE SelectType(_, _)
SelectType(es, article) ==
  IF es = <<>> THEN <<>>
  ELSE (IF (Head(es)[TypeKey] = <<"a", "r", "t", "i", "c", "l", "e">>) = article THEN <<Head(es)>> ELSE <<>>)
       \o SelectType(Tail(es), article)

\* lines 260-264
_get_pub_type_label(entry) ==
  IF entry[TypeKey] = <<"a", "r", "t", "i", "c", "l", "e">> THEN <<"JOURNAL ARTICLES">> ELSE <<"PREPRINTS">>

\* lines 451-492: the numbered citation of the values lines 440-449 extracted
CitationBullet(title, author, year, journal, volume, number, pages, doi, note, eprint, eprinttype, bib_key, index) ==
  LET detail_url == <<"publications/">> \o bib_key \o <<"/">>
      jcite == <<"*">> \o journal \o <<"*">>
               \o (IF volume # <<>> THEN <<", ">> \o volume ELSE <<>>)
               \o (IF number # <<>> THEN <<"(">> \o number \o <<")">> ELSE <<>>)
               \o (IF pages # <<>> THEN <<", ">> \o pages ELSE <<>>)
               \o <<".">>
      cite_parts ==
        << author \o <<" (">> \o year \o <<").">>,
           <<"U+201C", "[">> \o title \o <<"](">> \o detail_url \o <<").", "U+201D">> >>
        \o (IF journal # <<>> THEN <<jcite>>
            ELSE IF note # <<>> THEN << <<"*">> \o note \o <<".*">> >>
            ELSE <<>>)
        \o (IF doi # <<>>
              THEN << <<"DOI: [">> \o doi \o <<"](https://doi.org/">> \o doi \o <<").">> >>
              ELSE <<>>)
        \o (IF eprint # <<>> /\ eprinttype = <<"r", "e", "s", "e", "a", "r", "c", "h", "s", "q", "u", "a", "r", "e">>
              THEN << <<"ResearchSquare: [">> \o eprint
                      \o <<"](https://www.researchsquare.com/article/">> \o eprint \o <<").">> >>
              ELSE <<>>)
      citation == Join(<<" ">>, cite_parts)
  IN  Join(<<"\n">>, << IntStr(index) \o <<". ">> \o citation, <<>> >>)

\* lines 436-449
_fmt_publication_bullet(entry, index) ==
  CitationBullet(clean_latex(DictGet(entry, <<"t", "i", "t", "l", "e">>, <<"U", "n", "t", "i", "t", "l", "e", "d">>)),
                 bold_author(clean_latex(DictGet(entry, <<"a", "u", "t", "h", "o", "r">>, <<>>))),
                 get_year(entry),
                 clean_latex(DictGet(entry, <<"j", "o", "u", "r", "n", "a", "l">>, <<>>)),
                 DictGet(entry, <<"v", "o", "l", "u", "m", "e">>, <<>>),
                 clean_latex(DictGet(entry, <<"n", "u", "m", "b", "e", "r">>, <<>>)),
                 clean_latex(DictGet(entry, <<"p", "a", "g", "e", "s">>, <<>>)),
                 DictGet(entry, <<"d", "o", "i">>, <<>>),
                 clean_latex(DictGet(entry, <<"n", "o", "t", "e">>, <<>>)),
                 DictGet(entry, <<"e", "p", "r", "i", "n", "t">>, <<>>),
                 Lower(DictGet(entry, <<"e", "p", "r", "i", "n", "t", "t", "y", "p", "e">>, <<>>)),
                 entry[KeyKey],
                 index)

\* lines 282-283, 288-289
Bullets(es) == [n \in 1..Len(es) |-> _fmt_publication_bullet(es[n], n)]

\* lines 267-292
generate_publications(es) ==
  LET pubs == sort_by_year_desc(filter_by_keyword(es, <<"p", "u", "b">>))
      articles == SelectType(pubs, TRUE)
      preprints == SelectType(pubs, FALSE)
      lines ==
        (IF articles # <<>>
           THEN << <<"## Journal Articles\n">> >> \o Bullets(articles) \o << <<>> >>
           ELSE <<>>)
        \o (IF preprints # <<>>
              THEN << <<"## Preprints\n">> >> \o Bullets(preprints) \o << <<>> >>
              ELSE <<>>)
  IN  Join(<<"\n">>, lines)

\* number of leading characters of s[p:] other than c
RECURSIVE RunNot(_, _, _)
RunNot(s, c, p) == IF p < Len(s) /\ At(s, p) # c THEN 1 + RunNot(s, c, p + 1) ELSE 0

\* lines 529-534: re.match(r"https://([^.]+)\.github\.io/([^/]+)", url)
GithubRepo(url) ==
  LET u == RunNot(url, ".", 8)
      g == 8 + u + 11
      r == RunNot(url, "/", g)
  IN  IF /\ url # <<>>
         /\ StartsWithAt(url, 0, <<"h", "t", "t", "p", "s", ":", "/", "/">>)
         /\ u >= 1
         /\ StartsWithAt(url, 8 + u, <<".", "g", "i", "t", "h", "u", "b", ".", "i", "o", "/">>)
         /\ r >= 1
        THEN Slice(url, 8, 8 + u) \o <<"/">> \o Slice(url, g, g + r)
        ELSE <<>>

\* three grave accents, the code fence of lines 601-607
Fence == <<"U+0060", "U+0060", "U+0060">>

\* lines 519-611: the card of the values lines 510-517 extracted
SoftwareCard(title, author, note, doi, url, eprint, eprinttype, abstract) ==
  LET colon == FindChar(title, ":", 0)
      pkg_name == IF colon < Len(title) THEN Strip(Slice(title, 0, colon)) ELSE title
      pkg_desc == IF colon < Len(title) THEN Strip(Slice(title, colon + 1, Len(title))) ELSE <<>>
      github_repo == GithubRepo(url)
      logo_url == <<"https://raw.githubusercontent.com/">> \o github_repo
                  \o <<"/main/man/figures/logo.png">>
      cran == eprinttype = <<"c", "r", "a", "n">> /\ eprint # <<>>
      github == eprinttype = <<"g", "i", "t", "h", "u", "b">> /\ eprint # <<>>
      header ==
        IF github_repo # <<>>
          THEN << <<"<div class=\"pkg-header\">">>,
                  <<"<img src=\"">> \o logo_url \o <<"\" alt=\"">> \o pkg_name
                    \o <<" logo\" class=\"pkg-logo\" onerror=\"this.style.display='none'\">">>,
                  <<"<div class=\"pkg-header-text\">">>,
                  <<"<h2>">> \o pkg_name \o <<"</h2>">> >>
               \o (IF pkg_desc # <<>> THEN << <<"\n**">> \o pkg_desc \o <<"**\n">> >> ELSE <<>>)
               \o << <<"</div>">>, <<"</div>\n">> >>
          ELSE << <<"## ">> \o pkg_name \o <<"\n">> >>
               \o (IF pkg_desc # <<>> THEN << <<"**">> \o pkg_desc \o <<"**\n">> >> ELSE <<>>)
      badges ==
        IF cran
          THEN << <<"<div class=\"pkg-downloads\">">>,
                  <<"<strong>Downloads</strong><br>">>,
                  <<"<a href=\"https://cran.r-project.org/package=">> \o eprint \o <<"\">">>
                    \o <<"<img src=\"https://cranlogs.r-pkg.org/badges/">> \o eprint
                    \o <<"\" alt=\"monthly downloads\"></a> ">>
                    \o <<"<a href=\"https://cran.r-project.org/package=">> \o eprint \o <<"\">">>
                    \o <<"<img src=\"https://cranlogs.r-pkg.org/badges/grand-total/">> \o eprint
                    \o <<"\" alt=\"total downloads\"></a>">>,
                  <<"</div>\n">> >>
          ELSE <<>>
      cards ==
        (IF cran
           THEN << <<"::: {.card}\n\n### [", "U+1F4E6", " CRAN](https://cran.r-project.org/package=">>
                   \o eprint \o <<")\n\n">>
                   \o (IF note # <<>> THEN note ELSE <<"Available on CRAN">>) \o <<"\n\n:::">> >>
           ELSE <<>>)
        \o (IF github
              THEN << <<"::: {.card}\n\n### [", "U+1F419", " GitHub](https://github.com/">>
                      \o eprint \o <<")\n\n">> \o <<"Source code repository\n\n:::">> >>
              ELSE <<>>)
        \o (IF url # <<>>
              THEN << <<"::: {.card}\n\n### [", "U+1F4D6", " Documentation](">> \o url
                      \o <<")\n\n">> \o <<"Package website & vignettes\n\n:::">> >>
              ELSE <<>>)
      grid ==
        IF cards # <<>>
          THEN << <<"::: {.card-grid-2}\n">>, Join(<<"\n\n">>, cards), <<"\n:::\n">> >>
          ELSE <<>>
      authors ==
        IF doi # <<>>
          THEN << <<"**Authors:** ">> \o author \o <<"\\">>,
                  <<"**DOI:** [">> \o doi \o <<"](https://doi.org/">> \o doi \o <<")\n">> >>
          ELSE << <<"**Authors:** ">> \o author \o <<"\n">> >>
      description ==
        IF abstract # <<>> THEN << <<"### Description\n\n">> \o abstract \o <<"\n">> >> ELSE <<>>
      install ==
        IF cran
          THEN << <<"### Installation\n\n">> \o Fence \o <<"r\ninstall.packages(\"">> \o eprint
                  \o <<"\")\n">> \o Fence \o <<"\n">> >>
        ELSE IF github
          THEN << <<"### Installation\n\n">> \o Fence \o <<"r\n">> \o <<"# Install from GitHub\n">>
                  \o <<"# install.packages(\"devtools\")\n">>
                  \o <<"devtools::install_github(\"">> \o eprint \o <<"\")\n">> \o Fence
                  \o <<"\n">> >>
        ELSE <<>>
  IN  Join(<<"\n">>,
           header \o badges \o grid \o authors \o description \o install \o << <<"---\n">> >>)

\* lines 508-517
_fmt_software(entry) ==
  SoftwareCard(clean_latex(DictGet(entry, <<"t", "i", "t", "l", "e">>, <<"U", "n", "t", "i", "t", "l", "e", "d">>)),
               bold_author(clean_latex(DictGet(entry, <<"a", "u", "t", "h", "o", "r">>, <<>>))),
               clean_latex(DictGet(entry, <<"n", "o", "t", "e">>, <<>>)),
               DictGet(entry, <<"d", "o", "i">>, <<>>),
               DictGet(entry, <<"u", "r", "l">>, <<>>),
               DictGet(entry, <<"e", "p", "r", "i", "n", "t">>, <<>>),
               Lower(DictGet(entry, <<"e", "p", "r", "i", "n", "t", "t", "y", "p", "e">>, <<>>)),
               clean_latex(DictGet(entry, <<"a", "b", "s", "t", "r", "a", "c", "t">>, <<>>)))

\* lines 499-505
generate_software(es) ==
  LET software == sort_by_year_desc(filter_by_keyword(es, <<"s", "o", "f", "t", "w", "a", "r", "e">>))
  IN  Join(<<"\n">>, [n \in 1..Len(software) |-> _fmt_software(software[n])])

\* whether some text of a list stands for a raised ValueError
Raises(texts) == \E n \in 1..Len(texts) : texts[n] = ValueError

\* the text of a list of lines, or the ValueError one of them stands for
JoinLines(lines) == IF Raises(lines) THEN ValueError ELSE Join(<<"\n">>, lines)

\* lines 664-699: the timeline item of the values lines 652-662 extracted
TimelineItem(title, booktitle, howpublished, date, address, note, abstract, file_path, exists) ==
  IF date = ValueError THEN ValueError
  ELSE Join(<<"\n">>,
        << <<"::: {.timeline-item}">>,
           <<"::: {.timeline-left}">>,
           <<"[">> \o date \o <<"]{.tl-date}\\">> >>
        \o (IF address # <<>> THEN << <<"[">> \o address \o <<"]{.tl-place}">> >> ELSE <<>>)
        \o << <<":::">>,
              <<"::: {.timeline-center}">>,
              <<":::">>,
              <<"::: {.timeline-right}">>,
              <<"### ">> \o title >>
        \o (IF booktitle # <<>> /\ booktitle # title
              THEN << <<"*">> \o booktitle \o <<"*">> >>
            ELSE IF howpublished # <<>> THEN << <<"*">> \o howpublished \o <<"*">> >>
            ELSE <<>>)
        \o (IF note # <<>> /\ Lower(note) \notin {<<"p", "a", "r", "t", "i", "c", "i", "p", "a", "t", "i", "o", "n">>, <<"p", "a", "p", "e", "r", " ", "p", "r", "e", "s", "e", "n", "t", "e", "d">>}
              THEN << <<"\n*">> \o note \o <<"*">> >>
              ELSE <<>>)
        \o (IF abstract # <<>> THEN << <<"\n">> \o abstract >> ELSE <<>>)
        \o (IF file_path # <<>> /\ exists
              THEN << <<"\n[", "U+1F4C4", " Certificate](">> \o resolve_file_path(file_path)
                      \o <<"){.tl-cert}">> >>
              ELSE <<>>)
        \o << <<":::">>, <<"\n:::\n">> >>)

\* lines 650-662; ValueError when format_date raises at line 655
_fmt_conference(entry, fs, ds) ==
  TimelineItem(clean_latex(DictGet(entry, <<"t", "i", "t", "l", "e">>, <<>>)),
               clean_latex(DictGet(entry, <<"b", "o", "o", "k", "t", "i", "t", "l", "e">>, <<>>)),
               clean_latex(DictGet(entry, <<"h", "o", "w", "p", "u", "b", "l", "i", "s", "h", "e", "d">>, <<>>)),
               format_date(DictGet(entry, <<"d", "a", "t", "e">>, <<>>)),
               clean_latex(DictGet(entry, <<"a", "d", "d", "r", "e", "s", "s">>, <<>>)),
               clean_latex(DictGet(entry, <<"n", "o", "t", "e">>, <<>>)),
               clean_latex(DictGet(entry, <<"a", "b", "s", "t", "r", "a", "c", "t">>, <<>>)),
               DictGet(entry, <<"f", "i", "l", "e">>, <<>>),
               file_exists(fs, ds, DictGet(entry, <<"f", "i", "l", "e">>, <<>>)))

\* lines 624-645: one section of the page, nothing when no entry has the keyword
TimelineSection(es, fs, ds, keyword, heading, closing) ==
  LET l == sort_by_year_desc(filter_by_keyword(es, keyword))
  IN  IF l # <<>>
        THEN << heading, <<"::: {.timeline}\n">> >>
             \o [n \in 1..Len(l) |-> _fmt_conference(l[n], fs, ds)]
             \o << closing >>
        ELSE <<>>

\* lines 618-647
generate_conferences(es, fs, ds) ==
  JoinLines(TimelineSection(es, fs, ds, <<"p", "r", "e", "s", "e", "n", "t">>, <<"## Papers Presented\n">>, <<":::\n\n---\n">>)
            \o TimelineSection(es, fs, ds, <<"p", "o", "s", "t", "e", "r">>, <<"## Posters Presented\n">>, <<":::\n\n---\n">>)
            \o TimelineSection(es, fs, ds, <<"p", "a", "r", "t">>, <<"## Workshops & Conferences Attended\n">>,
                               <<":::\n">>))

\* sum(1 for e in es if (e["_type"] == "article") == article)
CountType(es, article) == Len(SelectType(es, article))

\* lines 706-724
generate_research_counts(es) ==
  LET pubs == filter_by_keyword(es, <<"p", "u", "b">>)
      n_articles == CountType(pubs, TRUE)
      n_preprints == CountType(pubs, FALSE)
      n_software == Len(filter_by_keyword(es, <<"s", "o", "f", "t", "w", "a", "r", "e">>))
      n_present == Len(filter_by_keyword(es, <<"p", "r", "e", "s", "e", "n", "t">>))
      n_poster == Len(filter_by_keyword(es, <<"p", "o", "s", "t", "e", "r">>))
  IN  Join(<<"\n">>,
           << <<"| Type | Count |">>,
              <<"|---|---|">>,
              <<"| Peer-reviewed journal articles | ">> \o IntStr(n_articles) \o <<" |">>,
              <<"| Preprints | ">> \o IntStr(n_preprints) \o <<" |">>,
              <<"| R packages (CRAN / GitHub) | ">> \o IntStr(n_software) \o <<" |">>,
              <<"| Conference papers presented | ">> \o IntStr(n_present) \o <<" |">>,
              <<"| Poster presentations | ">> \o IntStr(n_poster) \o <<" |">> >>)

\* lines 746-750 and 761-765: one numbered item; poster items show every note
ListItem(title, booktitle, address, date, note, index, poster) ==
  LET note_str ==
        IF note # <<>> /\ (poster \/ Lower(note) # <<"p", "a", "p", "e", "r", " ", "p", "r", "e", "s", "e", "n", "t", "e", "d">>)
          THEN <<" *(">> \o note \o <<")*">>
          ELSE <<>>
  IN  IF date = ValueError THEN ValueError
      ELSE IntStr(index) \o <<". **">> \o title \o <<"**\\\n">>
           \o <<"   *">> \o booktitle \o <<"*, ">> \o address \o <<". ">> \o date \o <<".">>
           \o note_str \o <<"\n">>

\* lines 740-745 and 755-760; ValueError when format_date raises
ConferenceListItem(e, index, poster) ==
  ListItem(clean_latex(DictGet(e, <<"t", "i", "t", "l", "e">>, <<>>)),
           clean_latex(DictGet(e, <<"b", "o", "o", "k", "t", "i", "t", "l", "e">>, <<>>)),
           clean_latex(DictGet(e, <<"a", "d", "d", "r", "e", "s", "s">>, <<>>)),
           format_date(DictGet(e, <<"d", "a", "t", "e">>, <<>>)),
           clean_latex(DictGet(e, <<"n", "o", "t", "e">>, <<>>)),
           index, poster)

\* lines 737-751 and 753-766: one section of the list, nothing when no entry has the keyword
ListSection(es, keyword, heading, poster) ==
  LET l == sort_by_year_desc(filter_by_keyword(es, keyword))
  IN  IF l # <<>>
        THEN << heading >> \o [n \in 1..Len(l) |-> ConferenceListItem(l[n], n, poster)]
             \o << <<>> >>
        ELSE <<>>

\* lines 731-768
generate_pub_conference_list(es) ==
  JoinLines(ListSection(es, <<"p", "r", "e", "s", "e", "n", "t">>, <<"## Conference Papers Presented\n">>, FALSE)
            \o ListSection(es, <<"p", "o", "s", "t", "e", "r">>, <<"## Poster Presentations\n">>, TRUE))

\* lines 339-433: the page of the values lines 320-337 extracted
DetailPage(title, author, journal, volume, number, pages, doi, note, abstract, eprint, eprinttype, file_path, exists, pub_type, pub_date) ==
  LET pd == <<"<em>">> \o journal \o <<"</em>">>
            \o (IF volume # <<>> THEN <<", <strong>">> \o volume \o <<"</strong>">> ELSE <<>>)
            \o (IF number # <<>> THEN <<"(">> \o number \o <<")">> ELSE <<>>)
            \o (IF pages # <<>> THEN <<", ">> \o pages ELSE <<>>)
      pub_details == IF journal # <<>> THEN pd ELSE IF note # <<>> THEN note ELSE <<>>
      link_badges ==
        (IF doi # <<>>
           THEN << <<"<a href=\"https://doi.org/">> \o doi
                   \o <<"\" class=\"pub-link-badge pub-link-doi\" ">>
                   \o <<"target=\"_blank\" rel=\"noopener\">DOI</a>">> >>
           ELSE <<>>)
        \o (IF file_path # <<>> /\ exists
              THEN << <<"<a href=\"../../">> \o resolve_file_path(file_path)
                      \o <<"\" class=\"pub-link-badge pub-link-pdf\" ">>
                      \o <<"target=\"_blank\" rel=\"noopener\">PDF</a>">> >>
              ELSE <<>>)
        \o (IF eprint # <<>> /\ eprinttype = <<"r", "e", "s", "e", "a", "r", "c", "h", "s", "q", "u", "a", "r", "e">>
              THEN << <<"<a href=\"https://www.researchsquare.com/article/">> \o eprint
                      \o <<"\" ">>
                      \o <<"class=\"pub-link-badge pub-link-preprint\" target=\"_blank\" rel=\"noopener\">ResearchSquare</a>">> >>
              ELSE <<>>)
        \o (IF eprint # <<>> /\ eprinttype = <<"a", "r", "x", "i", "v">>
              THEN << <<"<a href=\"https://arxiv.org/abs/">> \o eprint \o <<"\" ">>
                      \o <<"class=\"pub-link-badge pub-link-preprint\" target=\"_blank\" rel=\"noopener\">arXiv</a>">> >>
              ELSE <<>>)
      links_html == Join(<<"\n">>, link_badges)
      safe_title == Replace(title, <<"\"">>, <<"\\", "\"">>)
      lines ==
        << <<"---">>,
           <<"title: \"">> \o safe_title \o <<"\"">>,
           <<"toc: false">>,
           <<"---">>,
           <<>>,
           <<"<span class=\"pub-type-badge\">">> \o pub_type \o <<"</span>">>,
           <<>>,
           <<"<div class=\"pub-meta-card\">">>,
           <<"<div class=\"pub-meta-row\">">>,
           <<"<div class=\"pub-meta-label\">AUTHORS</div>">>,
           <<"<div class=\"pub-meta-value\">">> \o author \o <<"</div>">>,
           <<"</div>">>,
           <<"<div class=\"pub-meta-row\">">>,
           <<"<div class=\"pub-meta-label\">PUBLISHED</div>">>,
           <<"<div class=\"pub-meta-value\">">> \o pub_date \o <<"</div>">>,
           <<"</div>">> >>
        \o (IF pub_details # <<>>
              THEN << <<"<div class=\"pub-meta-row\">">>,
                      <<"<div class=\"pub-meta-label\">PUBLICATION DETAILS</div>">>,
                      <<"<div class=\"pub-meta-value\">">> \o pub_details \o <<"</div>">>,
                      <<"</div>">> >>
              ELSE <<>>)
        \o (IF links_html # <<>>
              THEN << <<"<div class=\"pub-meta-row\">">>,
                      <<"<div class=\"pub-meta-label\">LINKS</div>">>,
                      <<"<div class=\"pub-meta-value\">">> \o links_html \o <<"</div>">>,
                      <<"</div>">> >>
              ELSE <<>>)
        \o << <<"</div>">>, <<>> >>
        \o (IF abstract # <<>> THEN <<abstract, <<>> >> ELSE <<>>)
  IN  IF pub_date = ValueError THEN ValueError ELSE Join(<<"\n">>, lines)

\* line 337
PubDate(date, year) == IF date # <<>> THEN format_date(date) ELSE year

\* lines 318-337; ValueError when format_date raises at line 337
_build_detail_page(entry, fs, ds) ==
  DetailPage(clean_latex(DictGet(entry, <<"t", "i", "t", "l", "e">>, <<"U", "n", "t", "i", "t", "l", "e", "d">>)),
             clean_latex(DictGet(entry, <<"a", "u", "t", "h", "o", "r">>, <<>>)),
             clean_latex(DictGet(entry, <<"j", "o", "u", "r", "n", "a", "l">>, <<>>)),
             DictGet(entry, <<"v", "o", "l", "u", "m", "e">>, <<>>),
             clean_latex(DictGet(entry, <<"n", "u", "m", "b", "e", "r">>, <<>>)),
             clean_latex(DictGet(entry, <<"p", "a", "g", "e", "s">>, <<>>)),
             DictGet(entry, <<"d", "o", "i">>, <<>>),
             clean_latex(DictGet(entry, <<"n", "o", "t", "e">>, <<>>)),
             clean_latex(DictGet(entry, <<"a", "b", "s", "t", "r", "a", "c", "t">>, <<>>)),
             DictGet(entry, <<"e", "p", "r", "i", "n", "t">>, <<>>),
             Lower(DictGet(entry, <<"e", "p", "r", "i", "n", "t", "t", "y", "p", "e">>, <<>>)),
             DictGet(entry, <<"f", "i", "l", "e">>, <<>>),
             file_exists(fs, ds, DictGet(entry, <<"f", "i", "l", "e">>, <<>>)),
             _get_pub_type_label(entry),
             PubDate(DictGet(entry, <<"d", "a", "t", "e">>, <<>>), get_year(entry)))

\* ------------------------------------------------------------------------
\* Inputs: the texts reference.bib may hold
\* ------------------------------------------------------------------------

\* longest run of top-level fragments in a free-form text
MaxChunks == 2

\* longest run of fragments in the body of a free-form entry
MaxBody == 2

\* longest content of a braced value
MaxBraced == 4

\* longest comment line
MaxComment == 2

\* longest content of a quoted value
MaxQuoted == 2

\* longest bare value, the whitespace before it included
MaxBare == 2

\* most entries of a bibliography of well-formed entries
MaxEntries == 2

\* how many times the generator is run
MaxRuns == 2

\* longest list of records handed to sort_by_year_desc
MaxSorted == 3

\* longest body handed to _parse_fields on its own
MaxScanned == 4

RECURSIVE Flatten(_)
Flatten(ss) == IF ss = <<>> THEN <<>> ELSE Head(ss) \o Flatten(Tail(ss))

SeqsUpTo(S, n) == UNION {[1..k -> S] : k \in 0..n}

TopChunks ==
  {<<"@", "a", "{", "k", ",">>, <<"t", "=">>, <<"{">>, <<"}">>, <<"\"">>, <<"%">>, <<"\n">>, <<"x">>}

BodyChunks ==
  {<<"t", "=">>, <<"{">>, <<"}">>, <<",">>, <<"\"">>, <<"%">>, <<"\n">>, <<"x">>}

\* free-form texts: any run of fragments, well formed or not
FreeTexts == {Flatten(cs) : cs \in SeqsUpTo(TopChunks, MaxChunks)}

\* an entry marker followed by a free-form body
FreeEntries == {<<"@", "A", "b", "{", "k", "1", " ", ",">> \o Flatten(cs) : cs \in SeqsUpTo(BodyChunks, MaxBody)}

\* net brace depth of s, and whether no prefix of s closes more than it opens
RECURSIVE Depth(_)
Depth(s) ==
  IF s = <<>> THEN 0
  ELSE Depth(SubSeq(s, 1, Len(s) - 1))
       + (IF s[Len(s)] = "{" THEN 1 ELSE IF s[Len(s)] = "}" THEN -1 ELSE 0)

Balanced(s) == Depth(s) = 0 /\ \A n \in 1..Len(s) : Depth(SubSeq(s, 1, n)) >= 0

\* contents of braced values: every balanced text over these characters
BracedContents == {v \in SeqsUpTo({"x", " ", "{", "}"}, MaxBraced) : Balanced(v)}

BracedPrefix == <<"@", "a", "r", "t", "i", "c", "l", "e", "{", "k", "1", ",", " ", "t", "=", "{">>

BracedSuffix == <<"}", ",", " ", "u", "=", "{", "w", "}", "}">>

BracedEntry(v) == BracedPrefix \o v \o BracedSuffix

\* comment lines: the characters after the % up to the end of the line
CommentLines == SeqsUpTo({"x", "{", "}", "=", "\"", "%"}, MaxComment)

CommentPrefix == <<"@", "m", "i", "s", "c", "{", "k", "1", ",", "\n", " ", " ", "%">>

CommentSuffix == <<"\n", " ", " ", "t", "=", "{", "x", "}", ",", "\n", " ", " ", "u", "=", "{", "w", "}", "\n", "}">>

CommentEntry(c) == CommentPrefix \o c \o CommentSuffix

\* contents of quoted values, a quote or a backslash among them
QuotedContents == SeqsUpTo({"x", " ", "\\", "\"", "{", "}"}, MaxQuoted)

QuotedPrefix == <<"@", "m", "i", "s", "c", "{", "k", "1", ",", " ", "t", "=", "\"">>

QuotedSuffix == <<"\"", ",", " ", "u", "=", "{", "w", "}", "}">>

QuotedEntry(q) == QuotedPrefix \o q \o QuotedSuffix

\* bare values and the whitespace between the = and them
BareContents == SeqsUpTo({"x", " ", "\n", "{", "}", "\""}, MaxBare)

BarePrefix == <<"@", "m", "i", "s", "c", "{", "k", "1", ",", " ", "t", " ", "=">>

BareSuffix == <<",", " ", "u", "=", "{", "w", "}", "}">>

BareEntry(b) == BarePrefix \o b \o BareSuffix

\* field names as they are written, with the name they are stored under
RepeatedNames ==
  {[written |-> <<"t">>, stored |-> <<"t">>], [written |-> <<"T">>, stored |-> <<"t">>],
   [written |-> <<"A", "b">>, stored |-> <<"a", "b">>], [written |-> <<"_", "k", "e", "y">>, stored |-> <<"_", "k", "e", "y">>]}

\* values as they are written, with the value that is stored
RepeatedValues ==
  {[written |-> <<"a">>, stored |-> <<"a">>], [written |-> <<" ", "b", "\t">>, stored |-> <<"b">>],
   [written |-> <<>>, stored |-> <<>>]}

\* an entry of two fields, the first braced and the second quoted
RepeatedEntry(n1, v1, n2, v2) ==
  <<"@", "m", "i", "s", "c", "{", "k", "1", ",", " ">> \o n1.written \o <<"=", "{">> \o v1.written \o <<"}", ",", "\n", " ", " ">>
    \o n2.written \o <<" ", "=", " ", "\"">> \o v2.written \o <<"\"", "}">>

RepeatedEntries ==
  {RepeatedEntry(n1, v1, n2, v2) : n1 \in RepeatedNames, v1 \in RepeatedValues,
                                   n2 \in RepeatedNames, v2 \in RepeatedValues}

\* well-formed entries of the kinds the formatter tells apart
EntryPool ==
  {<<"@", "a", "r", "t", "i", "c", "l", "e", "{", "k", "e", "y", "A", ",", " ", "y", "e", "a", "r", "=", "{", "2", "0", "2", "0", "}", ",", " ", "k", "e", "y", "w", "o", "r", "d", "s", "=", "{", "p", "u", "b", "}", "}", "\n">>,
   <<"@", "m", "i", "s", "c", "{", "k", "e", "y", "B", ",", " ", "y", "e", "a", "r", "=", "{", "2", "0", "2", "3", "}", ",", " ", "k", "e", "y", "w", "o", "r", "d", "s", "=", "{", "p", "u", "b", "}", "}", "\n">>,
   <<"@", "M", "i", "s", "c", "{", "s", "w", ",", " ", "t", "i", "t", "l", "e", "=", "{", "p", "k", "g", ":", " ", "T", "o", "o", "l", "s", "}", ",", " ", "d", "a", "t", "e", "=", "{", "2", "0", "2", "1", "-", "0", "5", "-", "0", "3", "}", ",", " ", "k", "e", "y", "w", "o", "r", "d", "s", "=", "{", "p", "u", "b", ",", " ", "s", "o", "f", "t", "w", "a", "r", "e", "}", "}", "\n">>,
   <<"@", "i", "n", "p", "r", "o", "c", "e", "e", "d", "i", "n", "g", "s", "{", "t", "a", "l", "k", ",", " ", "t", "i", "t", "l", "e", "=", "{", "T", "}", ",", " ", "d", "a", "t", "e", "=", "{", "2", "0", "2", "4", "-", "0", "2", "-", "0", "5", "}", ",", " ", "k", "e", "y", "w", "o", "r", "d", "s", " ", "=", " ", "{", "p", "r", "e", "s", "e", "n", "t", "}", ",", " ", "f", "i", "l", "e", "=", "{", ".", ".", "/", "_", "i", "n", "c", "l", "u", "d", "e", "s", "/", "r", "e", "s", "e", "a", "r", "c", "h", "_", "c", "o", "u", "n", "t", "s", ".", "m", "d", "}", "}", "\n">>,
   <<"@", "m", "i", "s", "c", "{", "p", "x", ",", " ", "y", "e", "a", "r", "=", "{", "2", "0", "2", "2", "}", ",", " ", "_", "t", "y", "p", "e", "=", "{", "}", ",", " ", "_", "k", "e", "y", "=", "{", "}", ",", " ", "k", "e", "y", "w", "o", "r", "d", "s", "=", "{", "p", "u", "b", "s", ",", "p", "a", "r", "t", " ", ",", "p", "o", "s", "t", "e", "r", "-", "x", "}", ",", " ", "f", "i", "l", "e", "=", "{", "c", "e", "r", "t", ".", "p", "d", "f", "}", "}", "\n">>,
   <<"@", "m", "i", "s", "c", "{", "o", "n", "l", "y", ",", "}", "\n">>}

Bibliographies == {Flatten(es) : es \in SeqsUpTo(EntryPool, MaxEntries)}

Inputs ==
  UNION {FreeTexts, FreeEntries,
         {BracedEntry(v) : v \in BracedContents},
         {CommentEntry(c) : c \in CommentLines},
         {QuotedEntry(q) : q \in QuotedContents},
         {BareEntry(b) : b \in BareContents},
         RepeatedEntries,
         Bibliographies}

\* line 32
BIB_FILE == <<<<"r", "e", "f", "e", "r", "e", "n", "c", "e", ".", "b", "i", "b">>>>

\* the asset the directory CVShrikrishnaBhat holds
AssetFile == CV_DIR \o <<<<"c", "e", "r", "t", ".", "p", "d", "f">>>>

\* lines 785-791: the names of the include files, in the order of content_map
FILENAMES ==
  <<<<"p", "u", "b", "l", "i", "c", "a", "t", "i", "o", "n", "s", "_", "c", "o", "n", "t", "e", "n", "t", ".", "m", "d">>, <<"s", "o", "f", "t", "w", "a", "r", "e", "_", "c", "o", "n", "t", "e", "n", "t", ".", "m", "d">>, <<"c", "o", "n", "f", "e", "r", "e", "n", "c", "e", "s", "_", "c", "o", "n", "t", "e", "n", "t", ".", "m", "d">>,
    <<"r", "e", "s", "e", "a", "r", "c", "h", "_", "c", "o", "u", "n", "t", "s", ".", "m", "d">>, <<"p", "u", "b", "_", "c", "o", "n", "f", "e", "r", "e", "n", "c", "e", "_", "l", "i", "s", "t", ".", "m", "d">>>>

\* line 783
ML_DISABLE == <<"<!-- markdownlint-disable -->\n\n">>

\* ------------------------------------------------------------------------
\* State
\* ------------------------------------------------------------------------

VARIABLES
  files,        \* the files of the project tree: path -> text
  dirs,         \* the directories of the project tree
  pc,           \* where main stands
  content,      \* parse_bib: content
  entries,      \* parse_bib: entries
  scan,         \* parse_bib: where re.finditer resumes
  match,        \* parse_bib: the current match
  body,         \* _parse_fields: body
  i,            \* _parse_fields: i
  fields,       \* _parse_fields: fields
  content_map,  \* main: the five generated texts, in the order of FILENAMES
  w,            \* main: the next item of content_map to write
  pubs,         \* generate_publication_pages: pubs
  p,            \* generate_publication_pages: the next entry of pubs
  runs,         \* how many times main has been started
  first_run     \* the files as the first run left them

vars ==
  <<files, dirs, pc, content, entries, scan, match, body, i, fields,
    content_map, w, pubs, p, runs, first_run>>

tree == <<files, dirs>>

parser == <<content, entries, scan, match, body, i, fields>>

writer == <<content_map, w, pubs, p>>

history == <<runs, first_run>>

\* reference.bib holds one of the texts, or is missing
Init ==
  /\ \/ \E text \in Inputs : files = (BIB_FILE :> text) @@ (AssetFile :> <<"asset">>)
     \/ files = (AssetFile :> <<"asset">>)
  /\ dirs = {ProjectDir, CV_DIR}
  /\ pc = "main"
  /\ content = <<>>
  /\ entries = <<>>
  /\ scan = 0
  /\ match = NoMatch
  /\ body = <<>>
  /\ i = 0
  /\ fields = EmptyDict
  /\ content_map = <<>>
  /\ w = 1
  /\ pubs = <<>>
  /\ p = 1
  /\ runs = 1
  /\ first_run = EmptyDict

\* line 777
main_mkdir ==
  /\ pc = "main"
  /\ LET r == Mkdir(files, dirs, ProjectDir, <<"_", "i", "n", "c", "l", "u", "d", "e", "s">>)
     IN  /\ dirs' = r.dirs
         /\ pc' = IF r.ok THEN "parse_bib" ELSE "raised"
  /\ UNCHANGED <<files, parser, writer, history>>

\* parse_bib_read taking a missing file for an empty one
parse_bib_read_or_empty ==
  /\ pc = "parse_bib"
  /\ content' = IF BIB_FILE \in DOMAIN files THEN files[BIB_FILE] ELSE <<>>
  /\ entries' = <<>>
  /\ scan' = 0
  /\ pc' = "finditer"
  /\ UNCHANGED <<tree, match, body, i, fields, writer, history>>

\* lines 48-51; open() raises FileNotFoundError when the file is missing
parse_bib_read ==
  /\ pc = "parse_bib"
  /\ IF BIB_FILE \in DOMAIN files
       THEN /\ content' = files[BIB_FILE]
            /\ entries' = <<>>
            /\ scan' = 0
            /\ pc' = "finditer"
       ELSE /\ pc' = "raised"
            /\ UNCHANGED <<content, entries, scan>>
  /\ UNCHANGED <<tree, match, body, i, fields, writer, history>>

\* lines 54-71: the next match, its body, and the call of _parse_fields (81-83)
parse_bib_match ==
  /\ pc = "finditer"
  /\ NextHeader(content, scan).found
  /\ match' = NextHeader(content, scan)
  /\ body' = EntryBody(content, match'.end)
  /\ i' = 0
  /\ fields' = EmptyDict
  /\ pc' = "fields"
  /\ UNCHANGED <<tree, content, entries, scan, writer, history>>

\* lines 85-90: whitespace and commas to the end of the body
pf_skip_end ==
  /\ pc = "fields"
  /\ i < Len(body)
  /\ SkipBreak(AfterSkip(body, i), Len(body))
  /\ i' = AfterSkip(body, i)
  /\ UNCHANGED <<tree, pc, content, entries, scan, match, body, fields, writer, history>>

\* lines 85-96: a comment line (body[i] at line 93 raises out of range)
pf_comment ==
  LET j == AfterSkip(body, i)
  IN  /\ pc = "fields"
      /\ i < Len(body)
      /\ ~SkipBreak(j, Len(body))
      /\ Subscript(body, j) \in {"%", IndexError}
      /\ IF Subscript(body, j) = IndexError
           THEN pc' = "raised" /\ i' = j
           ELSE pc' = pc /\ i' = CommentEnd(body, j)
      /\ UNCHANGED <<tree, content, entries, scan, match, body, fields, writer, history>>

\* pf_swallow without the i += 1 of line 101
pf_swallow_stay ==
  LET j == AfterSkip(body, i)
  IN  /\ pc = "fields"
      /\ i < Len(body)
      /\ ~SkipBreak(j, Len(body))
      /\ Subscript(body, j) \notin {"%", IndexError}
      /\ ~FieldNameMatch(body, j).found
      /\ i' = j
      /\ UNCHANGED <<tree, pc, content, entries, scan, match, body, fields, writer, history>>

\* lines 85-102: no field name here, swallow one character
pf_swallow ==
  LET j == AfterSkip(body, i)
  IN  /\ pc = "fields"
      /\ i < Len(body)
      /\ ~SkipBreak(j, Len(body))
      /\ Subscript(body, j) \notin {"%", IndexError}
      /\ ~FieldNameMatch(body, j).found
      /\ i' = j + 1
      /\ UNCHANGED <<tree, pc, content, entries, scan, match, body, fields, writer, history>>

\* lines 85-107: a field name and "=" with nothing after them
pf_name_end ==
  LET j == AfterSkip(body, i)
      m == FieldNameMatch(body, j)
  IN  /\ pc = "fields"
      /\ i < Len(body)
      /\ ~SkipBreak(j, Len(body))
      /\ Subscript(body, j) \notin {"%", IndexError}
      /\ m.found
      /\ NameBreak(m.end, Len(body))
      /\ i' = m.end
      /\ UNCHANGED <<tree, pc, content, entries, scan, match, body, fields, writer, history>>

\* lines 85-120, 134: a braced value (body[i] at line 110 raises out of range)
pf_braced ==
  LET j == AfterSkip(body, i)
  IN  /\ pc = "fields"
      /\ i < Len(body)
      /\ ~SkipBreak(j, Len(body))
      /\ Subscript(body, j) \notin {"%", IndexError}
      /\ \E m \in {FieldNameMatch(body, j)} :
           /\ m.found
           /\ ~NameBreak(m.end, Len(body))
           /\ Subscript(body, m.end) \in {"{", IndexError}
           /\ IF Subscript(body, m.end) = IndexError
                THEN pc' = "raised" /\ i' = m.end /\ fields' = fields
                ELSE \E v \in {BracedValue(body, m.end)} :
                       /\ pc' = pc
                       /\ i' = v.i
                       /\ fields' = StoreField(fields, Lower(m.group1), v.value)
      /\ UNCHANGED <<tree, content, entries, scan, match, body, writer, history>>

\* lines 85-109, 121-127, 134: a quoted value
pf_quoted ==
  LET j == AfterSkip(body, i)
  IN  /\ pc = "fields"
      /\ i < Len(body)
      /\ ~SkipBreak(j, Len(body))
      /\ Subscript(body, j) \notin {"%", IndexError}
      /\ \E m \in {FieldNameMatch(body, j)} :
           /\ m.found
           /\ ~NameBreak(m.end, Len(body))
           /\ Subscript(body, m.end) = "\""
           /\ \E v \in {QuotedValue(body, m.end)} :
                /\ i' = v.i
                /\ fields' = StoreField(fields, Lower(m.group1), v.value)
      /\ UNCHANGED <<tree, pc, content, entries, scan, match, body, writer, history>>

\* lines 85-109, 128-134: a bare value
pf_bare ==
  LET j == AfterSkip(body, i)
  IN  /\ pc = "fields"
      /\ i < Len(body)
      /\ ~SkipBreak(j, Len(body))
      /\ Subscript(body, j) \notin {"%", IndexError}
      /\ \E m \in {FieldNameMatch(body, j)} :
           /\ m.found
           /\ ~NameBreak(m.end, Len(body))
           /\ Subscript(body, m.end) \notin {"{", "\"", IndexError}
           /\ \E v \in {BareValue(body, m.end)} :
                /\ i' = v.i
                /\ fields' = StoreField(fields, Lower(m.group1), v.value)
      /\ UNCHANGED <<tree, pc, content, entries, scan, match, body, writer, history>>

\* parse_bib_append dropping a record whose citation key an earlier record has
parse_bib_append_dedup ==
  /\ pc = "fields"
  /\ i >= Len(body)
  /\ entries' = IF \E n \in 1..Len(entries) : entries[n][KeyKey] = Strip(match.group2)
                  THEN entries
                  ELSE Append(entries, MakeEntry(fields, match))
  /\ scan' = match.end
  /\ pc' = "finditer"
  /\ UNCHANGED <<tree, content, match, body, i, fields, writer, history>>

\* lines 136, 72-74: _parse_fields returns, the record is appended
parse_bib_append ==
  /\ pc = "fields"
  /\ i >= Len(body)
  /\ entries' = Append(entries, MakeEntry(fields, match))
  /\ scan' = match.end
  /\ pc' = "finditer"
  /\ UNCHANGED <<tree, content, match, body, i, fields, writer, history>>

\* line 76
parse_bib_return ==
  /\ pc = "finditer"
  /\ ~NextHeader(content, scan).found
  /\ pc' = "content_map"
  /\ UNCHANGED <<tree, parser, writer, history>>

\* lines 785-791: the five generators; a ValueError of format_date ends the run
main_content_map ==
  /\ pc = "content_map"
  /\ LET texts == <<generate_publications(entries),
                    generate_software(entries),
                    generate_conferences(entries, files, dirs),
                    generate_research_counts(entries),
                    generate_pub_conference_list(entries)>>
     IN  IF Raises(texts)
           THEN pc' = "raised" /\ content_map' = <<>>
           ELSE pc' = "write" /\ content_map' = texts
  /\ w' = 1
  /\ UNCHANGED <<tree, parser, pubs, p, history>>

\* lines 793-796: one item of content_map
main_write ==
  /\ pc = "write"
  /\ w <= Len(content_map)
  /\ LET r == WriteText(files, dirs, INCLUDES_DIR, FILENAMES[w], ML_DISABLE \o content_map[w])
     IN  /\ files' = r.files
         /\ pc' = IF r.ok THEN pc ELSE "raised"
  /\ w' = w + 1
  /\ UNCHANGED <<dirs, parser, content_map, pubs, p, history>>

\* lines 799, 304-305
gpp_start ==
  /\ pc = "write"
  /\ w > Len(content_map)
  /\ pubs' = filter_by_keyword(entries, <<"p", "u", "b">>)
  /\ p' = 1
  /\ LET r == Mkdir(files, dirs, ProjectDir, <<"p", "u", "b", "l", "i", "c", "a", "t", "i", "o", "n", "s">>)
     IN  /\ dirs' = r.dirs
         /\ pc' = IF r.ok THEN "pages" ELSE "raised"
  /\ UNCHANGED <<files, parser, content_map, w, history>>

\* lines 307-313: the detail page of one entry
gpp_page ==
  /\ pc = "pages"
  /\ p <= Len(pubs)
  /\ LET bib_key == pubs[p][KeyKey]
         made == Mkdir(files, dirs, PUB_PAGES_DIR, bib_key)
         qmd_content == _build_detail_page(pubs[p], files, made.dirs)
         written == WriteText(files, made.dirs, PUB_PAGES_DIR, bib_key \o <<"/", "i", "n", "d", "e", "x", ".", "q", "m", "d">>, qmd_content)
     IN  IF ~made.ok
           THEN pc' = "raised" /\ UNCHANGED tree
         ELSE IF qmd_content = ValueError \/ ~written.ok
           THEN pc' = "raised" /\ dirs' = made.dirs /\ UNCHANGED files
         ELSE pc' = pc /\ dirs' = made.dirs /\ files' = written.files
  /\ p' = p + 1
  /\ UNCHANGED <<parser, content_map, w, pubs, history>>

\* lines 315, 801
gpp_done ==
  /\ pc = "pages"
  /\ p > Len(pubs)
  /\ pc' = "done"
  /\ UNCHANGED <<tree, parser, writer, history>>

\* the generator is started again on the tree the run before left
main_again ==
  /\ pc = "done"
  /\ runs < MaxRuns
  /\ runs' = runs + 1
  /\ first_run' = IF runs = 1 THEN files ELSE first_run
  /\ pc' = "main"
  /\ UNCHANGED <<tree, parser, writer>>

Next ==
  \/ main_mkdir
  \/ parse_bib_read
  \/ parse_bib_match
  \/ pf_skip_end
  \/ pf_comment
  \/ pf_swallow
  \/ pf_name_end
  \/ pf_braced
  \/ pf_quoted
  \/ pf_bare
  \/ parse_bib_append
  \/ parse_bib_return
  \/ main_content_map
  \/ main_write
  \/ gpp_start
  \/ gpp_page
  \/ gpp_done
  \/ main_again

Spec == Init /\ [][Next]_vars

\* ------------------------------------------------------------------------
\* The renderers on records that lack optional fields
\* ------------------------------------------------------------------------

\* the optional fields a record may lack
OPTIONAL ==
  {<<"a", "u", "t", "h", "o", "r">>, <<"y", "e", "a", "r">>, <<"d", "a", "t", "e">>, <<"t", "i", "t", "l", "e">>, <<"j", "o", "u", "r", "n", "a", "l">>, <<"b", "o", "o", "k", "t", "i", "t", "l", "e">>, <<"a", "d", "d", "r", "e", "s", "s">>, <<"n", "o", "t", "e">>, <<"d", "o", "i">>,
   <<"e", "p", "r", "i", "n", "t">>, <<"f", "i", "l", "e">>}

\* the value a record holds under a name
FieldValue(name) ==
  CASE name = <<"a", "u", "t", "h", "o", "r">> -> <<"A", "u">>
    [] name = <<"y", "e", "a", "r">> -> <<"2", "0", "2", "0">>
    [] name = <<"d", "a", "t", "e">> -> <<"2", "0", "2", "1", "-", "0", "5", "-", "0", "3">>
    [] name = <<"t", "i", "t", "l", "e">> -> <<"T", "i">>
    [] name = <<"j", "o", "u", "r", "n", "a", "l">> -> <<"J", "o">>
    [] name = <<"b", "o", "o", "k", "t", "i", "t", "l", "e">> -> <<"B", "o">>
    [] name = <<"a", "d", "d", "r", "e", "s", "s">> -> <<"A", "d">>
    [] name = <<"n", "o", "t", "e">> -> <<"N", "o">>
    [] name = <<"d", "o", "i">> -> <<"1", "0", ".", "1", "/", "x">>
    [] name = <<"e", "p", "r", "i", "n", "t">> -> <<"r", "s", "-", "1">>
    [] name = <<"e", "p", "r", "i", "n", "t", "t", "y", "p", "e">> -> <<"r", "e", "s", "e", "a", "r", "c", "h", "s", "q", "u", "a", "r", "e">>
    [] name = <<"f", "i", "l", "e">> -> <<"c", "e", "r", "t", ".", "p", "d", "f">>
    [] name = TypeKey -> <<"m", "i", "s", "c">>
    [] name = KeyKey -> <<"k", "1">>

\* the record of parse_bib that holds the optional fields of present; an eprint
\* comes with its eprinttype
RecordWith(present) ==
  [name \in UNION {present, {TypeKey, KeyKey},
                   IF <<"e", "p", "r", "i", "n", "t">> \in present THEN {<<"e", "p", "r", "i", "n", "t", "t", "y", "p", "e">>} ELSE {}}
     |-> FieldValue(name)]

\* one record, before a renderer is called on it
RenderInit ==
  /\ files = (AssetFile :> <<"asset">>)
  /\ dirs = {ProjectDir, CV_DIR}
  /\ pc = "render"
  /\ content = <<>>
  /\ \E present \in SUBSET OPTIONAL : entries = <<RecordWith(present)>>
  /\ scan = 0
  /\ match = NoMatch
  /\ body = <<>>
  /\ i = 0
  /\ fields = EmptyDict
  /\ content_map = <<>>
  /\ w = 1
  /\ pubs = <<>>
  /\ p = 1
  /\ runs = 1
  /\ first_run = EmptyDict

\* lines 282-283: _fmt_publication_bullet(e, i)
render_bullet ==
  /\ pc = "render"
  /\ content_map' = <<_fmt_publication_bullet(entries[1], 1)>>
  /\ pc' = "bullet"
  /\ UNCHANGED <<tree, parser, w, pubs, p, history>>

\* line 312: _build_detail_page(entry)
render_detail ==
  /\ pc = "render"
  /\ content_map' = <<_build_detail_page(entries[1], files, dirs)>>
  /\ pc' = "detail"
  /\ UNCHANGED <<tree, parser, w, pubs, p, history>>

\* line 504: _fmt_software(e)
render_software ==
  /\ pc = "render"
  /\ content_map' = <<_fmt_software(entries[1])>>
  /\ pc' = "software"
  /\ UNCHANGED <<tree, parser, w, pubs, p, history>>

\* lines 629-630: _fmt_conference(e)
render_conference ==
  /\ pc = "render"
  /\ content_map' = <<_fmt_conference(entries[1], files, dirs)>>
  /\ pc' = "conference"
  /\ UNCHANGED <<tree, parser, w, pubs, p, history>>

\* lines 740-750: one item of the list of presentations
render_list_item ==
  /\ pc = "render"
  /\ content_map' = <<ConferenceListItem(entries[1], 1, FALSE)>>
  /\ pc' = "list_item"
  /\ UNCHANGED <<tree, parser, w, pubs, p, history>>

RenderNext ==
  \/ render_bullet
  \/ render_detail
  \/ render_software
  \/ render_conference
  \/ render_list_item

RenderSpec == RenderInit /\ [][RenderNext]_vars

\* ------------------------------------------------------------------------
\* sort_by_year_desc on lists of records
\* ------------------------------------------------------------------------

\* records told apart by their key: with a year, with a date alone, with both,
\* with neither, and with a year that is empty
SortRecords ==
  {(TypeKey :> <<"m", "i", "s", "c">>) @@ (KeyKey :> <<"a">>) @@ (<<"y", "e", "a", "r">> :> <<"2", "0", "2", "0">>),
   (TypeKey :> <<"m", "i", "s", "c">>) @@ (KeyKey :> <<"b">>) @@ (<<"y", "e", "a", "r">> :> <<"2", "0", "2", "0">>),
   (TypeKey :> <<"m", "i", "s", "c">>) @@ (KeyKey :> <<"c">>) @@ (<<"d", "a", "t", "e">> :> <<"2", "0", "2", "1", "-", "0", "5", "-", "0", "3">>),
   (TypeKey :> <<"m", "i", "s", "c">>) @@ (KeyKey :> <<"d">>),
   (TypeKey :> <<"m", "i", "s", "c">>) @@ (KeyKey :> <<"e">>) @@ (<<"y", "e", "a", "r">> :> <<"2", "0", "2", "3">>) @@ (<<"d", "a", "t", "e">> :> <<"2", "0", "1", "9", "-", "0", "1", "-", "0", "1">>),
   (TypeKey :> <<"m", "i", "s", "c">>) @@ (KeyKey :> <<"f">>) @@ (<<"y", "e", "a", "r">> :> <<>>) @@ (<<"d", "a", "t", "e">> :> <<"2", "0", "2", "4", "/", "2", "0", "2", "5">>),
   (TypeKey :> <<"m", "i", "s", "c">>) @@ (KeyKey :> <<"g">>) @@ (<<"y", "e", "a", "r">> :> <<"9", "9", "9">>)}

\* a list of records, before sort_by_year_desc is called on it
SortInit ==
  /\ files = (AssetFile :> <<"asset">>)
  /\ dirs = {ProjectDir, CV_DIR}
  /\ pc = "sort"
  /\ content = <<>>
  /\ entries \in SeqsUpTo(SortRecords, MaxSorted)
  /\ scan = 0
  /\ match = NoMatch
  /\ body = <<>>
  /\ i = 0
  /\ fields = EmptyDict
  /\ content_map = <<>>
  /\ w = 1
  /\ pubs = <<>>
  /\ p = 1
  /\ runs = 1
  /\ first_run = EmptyDict

\* lines 227-229: sort_by_year_desc(entries)
call_sort_by_year_desc ==
  /\ pc = "sort"
  /\ pubs' = sort_by_year_desc(entries)
  /\ pc' = "sorted"
  /\ UNCHANGED <<tree, parser, content_map, w, p, history>>

SortNext == call_sort_by_year_desc

SortSpec == SortInit /\ [][SortNext]_vars

\* ---------------------------------------------------------------------------
\* _parse_fields on every short body
\* ---------------------------------------------------------------------------

\* a name character, the separator, the delimiters of the three value forms,
\* the comment sign, the newline and the comma
ScanAlphabet == {"t", "=", "{", "}", "\"", "%", "\n", ","}

\* lines 79-83: _parse_fields(body) is entered
ScanInit ==
  /\ files = (AssetFile :> <<"asset">>)
  /\ dirs = {ProjectDir, CV_DIR}
  /\ pc = "fields"
  /\ content = <<>>
  /\ entries = <<>>
  /\ scan = 0
  /\ match = NoMatch
  /\ body \in SeqsUpTo(ScanAlphabet, MaxScanned)
  /\ i = 0
  /\ fields = EmptyDict
  /\ content_map = <<>>
  /\ w = 1
  /\ pubs = <<>>
  /\ p = 1
  /\ runs = 1
  /\ first_run = EmptyDict

\* lines 85, 136: the loop is left, fields is returned
pf_return ==
  /\ pc = "fields"
  /\ i >= Len(body)
  /\ pc' = "returned"
  /\ UNCHANGED <<tree, content, entries, scan, match, body, i, fields, writer, history>>

ScanNext ==
  \/ pf_skip_end
  \/ pf_comment
  \/ pf_swallow
  \/ pf_name_end
  \/ pf_braced
  \/ pf_quoted
  \/ pf_bare
  \/ pf_return

\* the interpreter runs the loop on: an iteration that can be made is made
ScanSpec == ScanInit /\ [][ScanNext]_vars /\ WF_vars(ScanNext)

\* ------------------------------------------------------------------------
\* Properties of the parser
\* ------------------------------------------------------------------------

\* parse_bib has returned: entries holds the records of content
Returned == pc = "content_map"

\* the record of an entry with the fields t and u
Record(type, key, t, u) ==
  (TypeKey :> type) @@ (KeyKey :> key) @@ (<<"t">> :> t) @@ (<<"u">> :> u)

\* text is prefix, something, suffix
IsTemplate(text, prefix, suffix) ==
  /\ Len(text) >= Len(prefix) + Len(suffix)
  /\ StartsWithAt(text, 0, prefix)
  /\ StartsWithAt(text, Len(text) - Len(suffix), suffix)

\* what text holds between prefix and suffix
Inside(text, prefix, suffix) == Slice(text, Len(prefix), Len(text) - Len(suffix))

\* the smallest member of a set of positions, or otherwise when it is empty
First(S, otherwise) == IF S = {} THEN otherwise ELSE CHOOSE k \in S : \A j \in S : k <= j

\* C1: parsing never fails. Whatever text reference.bib holds, no step of
\* parse_bib or of _parse_fields raises, every
\* step of the field scan moves its cursor forward, and every record appended moves
\* the scan of the text forward: both loops come to their end on every text, and
\* parse_bib returns the records it has collected.
ParserNeverRaises ==
  [][/\ (pc \in {"parse_bib", "finditer", "fields"} /\ BIB_FILE \in DOMAIN files) => pc' # "raised"
     /\ (pc = "fields" /\ pc' = "fields") => i' > i
     /\ (pc = "fields" /\ pc' = "finditer") =>
          (scan' > scan /\ Len(entries') = Len(entries) + 1)]_vars

\* a field name and "=" at the very end of an unterminated entry has been parsed
ParsedNameAtEnd ==
  /\ Returned
  /\ content = <<"@", "A", "b", "{", "k", "1", " ", ",", "t", "=">>
  /\ entries = <<(TypeKey :> <<"a", "b">>) @@ (KeyKey :> <<"k", "1">>)>>

\* the matches re.finditer yields from a position on, each search starting where
\* the match before ended
RECURSIVE Markers(_, _)
Markers(s, from) ==
  LET m == NextHeader(s, from)
  IN  IF m.found THEN <<m>> \o Markers(s, m.end) ELSE <<>>

\* C2: parse_bib returns exactly one record for every entry marker "@type{key,"
\* found in the text, in the order of the markers, with the type and key of its
\* marker; text between the entries gives no record, and two entries with the same
\* citation key give two records.
OneRecordPerMarker ==
  Returned =>
    LET ms == Markers(content, 0)
    IN  /\ Len(entries) = Len(ms)
        /\ \A n \in 1..Len(ms) :
             /\ entries[n][TypeKey] = Lower(ms[n].group1)
             /\ entries[n][KeyKey] = ms[n].group2

\* two entries with the same citation key have been parsed into two records
ParsedSameKeyTwice ==
  /\ Returned
  /\ Len(entries) = 2
  /\ entries[1][KeyKey] = entries[2][KeyKey]
  /\ entries[1][KeyKey] = <<"k", "e", "y", "A">>

\* C3: for an entry with a brace-delimited value of balanced nested braces, to any
\* depth, the value of the field is the whole content between the outer braces of
\* the value, inner braces kept as they are, with the whitespace at its two ends
\* trimmed; the nested closing braces do not cut the entry short, the field after
\* the value is parsed.
BracedValueTrimmed ==
  (Returned /\ IsTemplate(content, BracedPrefix, BracedSuffix)) =>
    entries = <<Record(<<"a", "r", "t", "i", "c", "l", "e">>, <<"k", "1">>,
                       Strip(Inside(content, BracedPrefix, BracedSuffix)), <<"w">>)>>

\* a value of nested braces has been parsed whole
ParsedNestedBraces ==
  /\ Returned
  /\ content = BracedEntry(<<"{", "{", "}", "}">>)
  /\ entries = <<Record(<<"a", "r", "t", "i", "c", "l", "e">>, <<"k", "1">>, <<"{", "{", "}", "}">>, <<"w">>)>>

\* C3 as stated: the value is the content between the outer braces as it stands
BracedValueExact ==
  (/\ Returned
   /\ IsTemplate(content, BracedPrefix, BracedSuffix)
   /\ "{" \in Range(Inside(content, BracedPrefix, BracedSuffix))) =>
    entries = <<Record(<<"a", "r", "t", "i", "c", "l", "e">>, <<"k", "1">>, Inside(content, BracedPrefix, BracedSuffix), <<"w">>)>>

\* C4: for an entry with a comment line in its field list, whatever the characters
\* on that line, no field is stored from the line, and the field after it and the
\* rest of the entry are parsed.
CommentLineSkipped ==
  (Returned /\ IsTemplate(content, CommentPrefix, CommentSuffix)) =>
    entries = <<Record(<<"m", "i", "s", "c">>, <<"k", "1">>, <<"x">>, <<"w">>)>>

\* the characters of a quoted value up to the next double quote, or up to the
\* closing brace that ends the entry: the first that leaves a brace of q unopened
QuotedStops(q) ==
  {k \in 0..(Len(q) - 1) : At(q, k) = "\"" \/ Depth(Slice(q, 0, k + 1)) < 0}

QuotedText(q) == Slice(q, 0, First(QuotedStops(q), Len(q)))

\* C5: for an entry with a value in double quotes, the value of the field is the
\* text from the opening quote to the next double quote, after a backslash or not,
\* with the whitespace at its two ends trimmed. The scan of the value handles no
\* braces; the entry itself still ends at the brace that closes it by the count of
\* parse_bib, which counts the braces inside the quotes, and the value ends there
\* when that is before the next quote.
QuotedValueToNextQuote ==
  (Returned /\ IsTemplate(content, QuotedPrefix, QuotedSuffix)) =>
    /\ Len(entries) = 1
    /\ <<"t">> \in DOMAIN entries[1]
    /\ entries[1][<<"t">>] = Strip(QuotedText(Inside(content, QuotedPrefix, QuotedSuffix)))

\* a value with a backslash and a double quote in it has been parsed
ParsedEscapedQuote ==
  /\ Returned
  /\ content = QuotedEntry(<<"\\", "\"">>)
  /\ entries[1][<<"t">>] = <<"\\">>

\* the double quotes of q that no backslash precedes
UnescapedQuotes(q) ==
  {k \in 0..(Len(q) - 1) : At(q, k) = "\"" /\ (k = 0 \/ At(q, k - 1) # "\\")}

\* the closing quote of the entry follows no backslash, and q has no braces
PlainQuoted(q) ==
  /\ q = <<>> \/ q[Len(q)] # "\\"
  /\ Range(q) \cap {"{", "}"} = {}

\* C5 as stated: the value is the exact text between the opening quote and the
\* next double quote that no backslash precedes (the closing quote of the entry
\* when the value has none); stated for the values without braces
QuotedValueExact ==
  (/\ Returned
   /\ IsTemplate(content, QuotedPrefix, QuotedSuffix)
   /\ PlainQuoted(Inside(content, QuotedPrefix, QuotedSuffix))) =>
    /\ <<"t">> \in DOMAIN entries[1]
    /\ entries[1][<<"t">>] =
         LET q == Inside(content, QuotedPrefix, QuotedSuffix)
         IN  Slice(q, 0, First(UnescapedQuotes(q), Len(q)))

\* b without the whitespace it starts with
Lead(b) == Slice(b, SpaceRun(b, 0), Len(b))

\* the commas, closing braces and newlines of r
BareStops(r) == {k \in 0..(Len(r) - 1) : At(r, k) \in {",", "}", "\n"}}

\* r up to its first comma, closing brace or newline, trimmed
BareText(r) == Strip(Slice(r, 0, First(BareStops(r), Len(r))))

\* C6: for an entry with a bare value, the first character after the "=" and the
\* whitespace that follows it (newlines too) being neither "{" nor a double quote,
\* the value of the field is the text from that character to the next comma,
\* closing brace or newline, trimmed of the whitespace at its end; when nothing but
\* whitespace follows the "=" to the end of the entry, no field is stored.
BareValueAfterWhitespace ==
  (Returned /\ IsTemplate(content, BarePrefix, BareSuffix)) =>
    LET l == Lead(Inside(content, BarePrefix, BareSuffix))
    IN  /\ Len(entries) = 1
        /\ IF l # <<>> /\ l[1] \in {"{", "\""} THEN TRUE
           ELSE IF l # <<>> /\ l[1] = "}" THEN <<"t">> \notin DOMAIN entries[1]
           ELSE /\ <<"t">> \in DOMAIN entries[1]
                /\ entries[1][<<"t">>] = BareText(l \o BareSuffix)

\* a bare value on the line after its "=" has been parsed
ParsedBareOnNextLine ==
  /\ Returned
  /\ content = BareEntry(<<"\n", "x">>)
  /\ entries = <<Record(<<"m", "i", "s", "c">>, <<"k", "1">>, <<"x">>, <<"w">>)>>

\* C6 as stated: when the character after the "=" is neither "{" nor a double
\* quote, the value is the text from after the "=" to the next comma, closing
\* brace or newline, trimmed; stated for the values without braces
BareValueFromEquals ==
  (/\ Returned
   /\ IsTemplate(content, BarePrefix, BareSuffix)
   /\ Range(Inside(content, BarePrefix, BareSuffix)) \cap {"{", "}"} = {}) =>
    LET r == Inside(content, BarePrefix, BareSuffix) \o BareSuffix
    IN  r[1] \notin {"{", "\""} =>
          /\ <<"t">> \in DOMAIN entries[1]
          /\ entries[1][<<"t">>] = BareText(r)

\* C7: every record parse_bib holds has, under the reserved keys _type and _key, a
\* type that is not empty and is in lower case and a citation key that is not
\* empty, also when the body of the entry has fields of these names; an entry of a
\* type and a key alone gives a record with no other field.
RecordsHaveTypeAndKey ==
  /\ \A n \in 1..Len(entries) :
       /\ {TypeKey, KeyKey} \subseteq DOMAIN entries[n]
       /\ entries[n][TypeKey] # <<>>
       /\ entries[n][TypeKey] = Lower(entries[n][TypeKey])
       /\ entries[n][KeyKey] # <<>>
  /\ (Returned /\ Len(entries) = 1 /\ body = <<>>) =>
       DOMAIN entries[1] = {TypeKey, KeyKey}

\* an entry whose body has fields named _type and _key has been parsed
ParsedReservedNames ==
  /\ Returned
  /\ Len(entries) = 1
  /\ entries[1][KeyKey] = <<"p", "x">>
  /\ entries[1][TypeKey] = <<"m", "i", "s", "c">>
  /\ entries[1][<<"y", "e", "a", "r">>] = <<"2", "0", "2", "2">>

\* _parse_fields has come to the end of the body and returns fields
FieldsReturned == pc = "fields" /\ i >= Len(body)

\* C13: of an entry of two fields, _parse_fields returns each field under its
\* lowercased name with its value trimmed of whitespace, and when the two names
\* are the same but for case, the one name with the value of the second field.
LastFieldWins ==
  \A n1 \in RepeatedNames, v1 \in RepeatedValues, n2 \in RepeatedNames, v2 \in RepeatedValues :
    (FieldsReturned /\ content = RepeatedEntry(n1, v1, n2, v2)) =>
      fields = [name \in {n1.stored, n2.stored} |->
                  IF name = n2.stored THEN v2.stored ELSE v1.stored]

\* the fields t={a} and T = " b<tab>" have been parsed into the one field t
ParsedRepeatedName ==
  /\ FieldsReturned
  /\ content = <<"@", "m", "i", "s", "c", "{", "k", "1", ",", " ", "t", "=", "{", "a", "}", ",", "\n", " ", " ", "T", " ", "=", " ", "\"", " ", "b", "\t", "\"", "}">>
  /\ fields = (<<"t">> :> <<"b">>)

\* C15: the field scan comes to its end on every entry body. Every iteration,
\* whatever its kind, leaves the cursor further on in the same body, by one
\* character at least and never past the character after the end; the cursor
\* never moves back; with the cursor at or past the end of the body no
\* iteration follows, the fields are returned; and every scan that is begun
\* does return.
FieldScanTerminates ==
  /\ [][pc = "fields" =>
           /\ i' >= i
           /\ body' = body
           /\ i < Len(body) => (pc' = "fields" /\ i' > i /\ i' <= Len(body) + 1)
           /\ i >= Len(body) => (pc' = "returned" /\ i' = i)]_vars
  /\ (pc = "fields") ~> (pc = "returned")

\* a scan that swallowed a character and read a quoted value left open has
\* returned, the cursor one past the end of the body
ScannedToTheEnd ==
  /\ pc = "returned"
  /\ body = <<"=", "t", "=", "\"">>
  /\ i = Len(body) + 1
  /\ fields = (<<"t">> :> <<>>)

\* ------------------------------------------------------------------------
\* Properties of the formatter
\* ------------------------------------------------------------------------

\* tag is one of the items of kw between its commas, trimmed
IsItem(kw, tag) ==
  \E a \in 0..Len(kw), b \in 0..Len(kw) :
    /\ a <= b
    /\ a = 0 \/ At(kw, a - 1) = ","
    /\ b = Len(kw) \/ At(kw, b) = ","
    /\ \A k \in a..(b - 1) : At(kw, k) # ","
    /\ Strip(Slice(kw, a, b)) = tag

\* the record has a keywords field with the item tag
Tagged(e, tag) == <<"k", "e", "y", "w", "o", "r", "d", "s">> \in DOMAIN e /\ IsItem(e[<<"k", "e", "y", "w", "o", "r", "d", "s">>], tag)

\* the records of es with the item tag, in their order
RECURSIVE TaggedOnly(_, _)
TaggedOnly(es, tag) ==
  IF es = <<>> THEN <<>>
  ELSE (IF Tagged(Head(es), tag) THEN <<Head(es)>> ELSE <<>>) \o TaggedOnly(Tail(es), tag)

\* the five category tags, and tags that are part of a keyword or have one inside
Tags == {<<"p", "u", "b">>, <<"s", "o", "f", "t", "w", "a", "r", "e">>, <<"p", "r", "e", "s", "e", "n", "t">>, <<"p", "o", "s", "t", "e", "r">>, <<"p", "a", "r", "t">>, <<"p", "u", "b", "s">>, <<"p", "o", "s", "t", "e", "r", "-", "x">>, <<"u", "b", "s">>, <<"p", "a", "r", "t", " ">>}

\* the publications page the run generated
PublicationsPage == content_map[1]

\* the link of the record to its detail page, as the page holds it
Link(key) == <<"publications/">> \o key \o <<"/">>

\* where the page has sub first, 0 when nowhere
Occurs(text, sub, k) == k + Len(sub) - 1 <= Len(text) /\ SubSeq(text, k, k + Len(sub) - 1) = sub

Position(text, sub) == First({k \in 1..Len(text) : Occurs(text, sub, k)}, 0)

\* e1 stands before e2 on the publications page
ListedBefore(e1, e2) ==
  /\ Position(PublicationsPage, Link(e1[KeyKey])) > 0
  /\ Position(PublicationsPage, Link(e1[KeyKey])) < Position(PublicationsPage, Link(e2[KeyKey]))

IsArticle(e) == e[TypeKey] = <<"a", "r", "t", "i", "c", "l", "e">>

\* C8: generate_publications lists the records tagged pub in two sections, the
\* journal articles (type article) before all the others, each section by
\* descending year: of two records of the same section the one with the later year
\* stands first; the article keyA of 2020 stands before the misc keyB of 2023.
ArticlesFirstThenByYear ==
  pc = "write" =>
    \A m, n \in 1..Len(entries) :
      (/\ Tagged(entries[m], <<"p", "u", "b">>)
       /\ Tagged(entries[n], <<"p", "u", "b">>)
       /\ entries[m][KeyKey] # entries[n][KeyKey]) =>
        /\ (IsArticle(entries[m]) /\ ~IsArticle(entries[n])) =>
             ListedBefore(entries[m], entries[n])
        /\ (/\ IsArticle(entries[m]) = IsArticle(entries[n])
            /\ StrLess(get_year(entries[n]), get_year(entries[m]))) =>
             ListedBefore(entries[m], entries[n])

\* the page with keyA of 2020 and keyB of 2023 has been generated, keyA first
ListedKeyAThenKeyB ==
  /\ pc = "write"
  /\ Position(PublicationsPage, Link(<<"k", "e", "y", "A">>)) > 0
  /\ Position(PublicationsPage, Link(<<"k", "e", "y", "A">>)) < Position(PublicationsPage, Link(<<"k", "e", "y", "B">>))

\* C8 as stated: of two records tagged pub the one with the later year stands
\* first on the page, keyB of 2023 before keyA of 2020
ListedByDescendingYear ==
  pc = "write" =>
    \A m, n \in 1..Len(entries) :
      (/\ Tagged(entries[m], <<"p", "u", "b">>)
       /\ Tagged(entries[n], <<"p", "u", "b">>)
       /\ StrLess(get_year(entries[n]), get_year(entries[m]))) =>
        ListedBefore(entries[m], entries[n])

SecondRunIdentical == (pc = "done" /\ runs >= 2) => files = first_run

\* ------------------------------------------------------------------------
\* Properties of main
\* ------------------------------------------------------------------------

\* C12: when reference.bib is missing, main gets no further than parse_bib,
\* where it ends with the error open() raises: no text is generated and no file
\* is written, the tree holding the asset alone and no directory but _includes
\* added to it.
MissingInputIsFatal ==
  BIB_FILE \notin DOMAIN files =>
    /\ pc \in {"main", "parse_bib", "raised"}
    /\ DOMAIN files = {AssetFile}
    /\ dirs \subseteq {ProjectDir, CV_DIR, INCLUDES_DIR}
    /\ content_map = <<>>
    /\ entries = <<>>

\* main has ended with the error of the missing file, _includes created
MissingInputRaised ==
  /\ BIB_FILE \notin DOMAIN files
  /\ pc = "raised"
  /\ INCLUDES_DIR \in dirs

\* ------------------------------------------------------------------------
\* Properties of the renderers
\* ------------------------------------------------------------------------

\* a renderer has returned
Rendered == pc \in {"bullet", "detail", "software", "conference", "list_item"}

\* whether the pieces of sub stand next to each other somewhere in text
Shows(text, sub) == Position(text, sub) # 0

\* the optional fields the rendered record lacks
Absent == OPTIONAL \ DOMAIN entries[1]

\* the fields the citation and the timeline item leave out when absent:
\* lines 463-484 and lines 667-694
OptionalFragmentsOmitted ==
  /\ pc = "bullet" =>
       /\ (<<"j", "o", "u", "r", "n", "a", "l">> \in Absent /\ <<"n", "o", "t", "e">> \in Absent) => ~Shows(content_map[1], <<"*">>)
       /\ <<"n", "o", "t", "e">> \in Absent => ~Shows(content_map[1], <<".*">>)
       /\ <<"d", "o", "i">> \in Absent => ~Shows(content_map[1], <<"DOI: [">>)
       /\ <<"e", "p", "r", "i", "n", "t">> \in Absent => ~Shows(content_map[1], <<"ResearchSquare: [">>)
  /\ pc = "conference" =>
       /\ <<"a", "d", "d", "r", "e", "s", "s">> \in Absent => ~Shows(content_map[1], <<"]{.tl-place}">>)
       /\ <<"b", "o", "o", "k", "t", "i", "t", "l", "e">> \in Absent => ~Shows(content_map[1], <<"\n", "*">>)
       /\ <<"n", "o", "t", "e">> \in Absent => ~Shows(content_map[1], <<"\n*">>)
       /\ <<"f", "i", "l", "e">> \in Absent => ~Shows(content_map[1], <<"){.tl-cert}">>)

\* C11: every renderer returns a text for a record that lacks any of its optional
\* fields. The citation leaves out the journal, note, DOI and eprint that are
\* absent and the timeline item the address, conference name, note and file that
\* are absent; an absent title is shown as "Untitled" in the citation and as an
\* empty heading in the timeline item, an absent author and year leave " ()." in
\* the citation, and an absent date leaves an empty date in the timeline item.
AbsentFieldsTolerated ==
  /\ Rendered => content_map[1] # ValueError
  /\ OptionalFragmentsOmitted
  /\ pc = "bullet" =>
       /\ <<"t", "i", "t", "l", "e">> \in Absent => Shows(content_map[1], <<"[">> \o <<"U", "n", "t", "i", "t", "l", "e", "d">> \o <<"](">>)
       /\ {<<"a", "u", "t", "h", "o", "r">>, <<"y", "e", "a", "r">>, <<"d", "a", "t", "e">>} \subseteq Absent =>
            Shows(content_map[1], <<"1", ". ", " (", ").">>)
  /\ pc = "conference" =>
       /\ <<"t", "i", "t", "l", "e">> \in Absent => Shows(content_map[1], <<"### ", "\n">>)
       /\ <<"d", "a", "t", "e">> \in Absent => Shows(content_map[1], <<"[", "]{.tl-date}\\">>)

\* the citation of a record that holds no optional field at all
RenderedBareRecord ==
  /\ pc = "bullet"
  /\ Absent = OPTIONAL
  /\ content_map[1] = <<"1", ". ", " (", ").", " ", "U+201C", "[">> \o <<"U", "n", "t", "i", "t", "l", "e", "d">>
                      \o <<"](", "publications/">> \o <<"k", "1">> \o <<"/", ").", "U+201D", "\n">>

\* C11 as the specification states it: every renderer returns a text, and the
\* fragment of every absent field is left out of it, the title, the author and
\* year, and the date included.
AbsentFieldsOmitted ==
  /\ Rendered => content_map[1] # ValueError
  /\ OptionalFragmentsOmitted
  /\ pc = "bullet" =>
       /\ <<"t", "i", "t", "l", "e">> \in Absent => ~Shows(content_map[1], <<"U+201C">>)
       /\ {<<"a", "u", "t", "h", "o", "r">>, <<"y", "e", "a", "r">>, <<"d", "a", "t", "e">>} \subseteq Absent => ~Shows(content_map[1], <<" (">>)
  /\ pc = "conference" =>
       /\ <<"t", "i", "t", "l", "e">> \in Absent => ~Shows(content_map[1], <<"### ">>)
       /\ <<"d", "a", "t", "e">> \in Absent => ~Shows(content_map[1], <<"]{.tl-date}\\">>)

\* ------------------------------------------------------------------------
\* Properties of sort_by_year_desc
\* ------------------------------------------------------------------------

\* the year of each of SortRecords: its year field, else what its date holds
\* before the first "-" or "/", else the empty string
YearOf(e) ==
  CASE e[KeyKey] = <<"a">> -> <<"2", "0", "2", "0">>
    [] e[KeyKey] = <<"b">> -> <<"2", "0", "2", "0">>
    [] e[KeyKey] = <<"c">> -> <<"2", "0", "2", "1">>
    [] e[KeyKey] = <<"d">> -> <<>>
    [] e[KeyKey] = <<"e">> -> <<"2", "0", "2", "3">>
    [] e[KeyKey] = <<"f">> -> <<>>
    [] e[KeyKey] = <<"g">> -> <<"9", "9", "9">>

\* the ways of arranging a list of n elements
Arrangements(n) == {pi \in [1..n -> 1..n] : \A j, k \in 1..n : pi[j] = pi[k] => j = k}

\* C14: sort_by_year_desc returns the records of its input rearranged so that
\* the year strings never increase, the records with the same year standing in
\* the order of the input and the records with an empty year standing last.
SortedByYearDescending ==
  pc = "sorted" =>
    /\ Len(pubs) = Len(entries)
    /\ \E pi \in Arrangements(Len(entries)) :
         /\ \A k \in 1..Len(pubs) : pubs[k] = entries[pi[k]]
         /\ \A j, k \in 1..Len(pubs) :
              (j < k /\ YearOf(pubs[j]) = YearOf(pubs[k])) => pi[j] < pi[k]
    /\ \A k \in 1..(Len(pubs) - 1) : ~StrLess(YearOf(pubs[k]), YearOf(pubs[k + 1]))
    /\ \A j, k \in 1..Len(pubs) : (j < k /\ YearOf(pubs[j]) = <<>>) => YearOf(pubs[k]) = <<>>

\* b, d, a has been sorted: d of no year goes last, b stays before a of its year
SortedEqualYears ==
  /\ pc = "sorted"
  /\ Len(entries) = 3
  /\ <<entries[1][KeyKey], entries[2][KeyKey], entries[3][KeyKey]>> = <<<<"b">>, <<"d">>, <<"a">>>>
  /\ <<pubs[1][KeyKey], pubs[2][KeyKey], pubs[3][KeyKey]>> = <<<<"b">>, <<"a">>, <<"d">>>>

====
